---- MODULE Spec2Model ----
(***************************************************************************)
(* patrick-db: an append-only tuple file (storageengine), the index        *)
(* strategies built on it (indexengine, bloomfilter) and the per-node      *)
(* key-value service with its replication channel (server).                *)
(*                                                                         *)
(* The backing file is modelled as the sequence of the rows it holds; the  *)
(* byte offset of a row is the sum of the encoded sizes of the rows before *)
(* it, computed with bincode's fixed-width sizes, so that every offset and *)
(* size the code passes around is the number the code would compute.       *)
(***************************************************************************)
EXTENDS Integers, Sequences, FiniteSets, TLC

(* ------------------------------------------------------------------ *)
(* Bounds of the model                                                 *)
(* ------------------------------------------------------------------ *)

\* rows the backing file may hold before appends are cut off
MaxRows == 3

\* largest transaction id handed to the operations layer directly
MaxTxid == 2

\* times the process may end and start again on the same file
MaxRestarts == 1

\* transaction id from which an index takes no further mutation
MaxTransactionId == 4

(* ------------------------------------------------------------------ *)
(* Program constants                                                   *)
(* ------------------------------------------------------------------ *)

\* u64::MAX, the "live" sentinel; TLC's integers are 32 bits wide, so the
\* sentinel is the largest integer of the model's width
NONE_SENTINEL == 2147483647

\* bincode encodes a u64 (and the length prefix of a Vec<u8>) in 8 bytes
U64Size == 8

\* the seven u64 fields of Header
HeaderFields == 7

HeaderSize == HeaderFields * U64Size

(* ------------------------------------------------------------------ *)
(* Results                                                             *)
(* ------------------------------------------------------------------ *)

Ok(v) == [ok |-> TRUE, val |-> v]

Err(e) == [ok |-> FALSE, err |-> e]

(* ------------------------------------------------------------------ *)
(* storageengine::operations: Header, Row, OffsetSize                  *)
(* ------------------------------------------------------------------ *)

Header(xmin, xmax, tuple_length, cmin, cmax) ==
    [xmin |-> xmin, xmax |-> xmax, tuple_length |-> tuple_length,
     table_oid |-> 0, ctid |-> 0, cmin |-> cmin, cmax |-> cmax]

Row(header, data) == [header |-> header, data |-> data]

OffsetSize(offset, size) == [offset |-> offset, size |-> size]

\* bincode::serialized_size(&data) for data: Vec<u8>: length prefix + bytes
VecSize(data) == U64Size + Len(data)

\* bincode::serialized_size(&row) = buf.len() of bincode::serialize(&row)
RowSize(row) == HeaderSize + VecSize(row.data)

(* ------------------------------------------------------------------ *)
(* storageengine::file_handler: FileHandlerImpl                        *)
(* A handler is [file, pos]: the rows in the file and the stream       *)
(* position of the handler's writer.                                   *)
(* ------------------------------------------------------------------ *)

RECURSIVE FileLenUpTo(_, _)
\* bytes taken by the first n rows of f
FileLenUpTo(f, n) == IF n = 0 THEN 0 ELSE FileLenUpTo(f, n - 1) + RowSize(f[n])

\* fs::metadata(filename).len()
FileLen(f) == FileLenUpTo(f, Len(f))

\* byte offset at which row i of f starts
OffsetOf(f, i) == FileLenUpTo(f, i - 1)

\* the row that starts at byte `offset`, 0 when none does
RowAt(f, offset) ==
    IF \E i \in 1..Len(f) : OffsetOf(f, i) = offset
    THEN CHOOSE i \in 1..Len(f) : OffsetOf(f, i) = offset
    ELSE 0

\* FileHandlerImpl::new: the file is opened in append mode; the stream
\* position of a freshly opened file is 0 whatever the file holds
FileHandlerImpl_new(f) == [file |-> f, pos |-> 0]

\* FileHandlerImpl::append: the offset returned is the writer's stream
\* position before the write; the write itself lands at the end of the
\* file (append mode) and leaves the position at the new end
FileHandlerImpl_append(fh, row) ==
    LET f2 == Append(fh.file, row)
    IN  [fh |-> [file |-> f2, pos |-> FileLen(f2)], offset |-> fh.pos]

\* FileHandlerImpl::read followed by bincode::deserialize::<Row>: read_exact
\* fails when the range passes the end of the file; the decoder fails when
\* the buffer ends before the row does, and ignores bytes after the row
FileHandlerImpl_read(fh, offset, size) ==
    LET i == RowAt(fh.file, offset)
    IN  IF offset + size > FileLen(fh.file) THEN Err("Io")
        ELSE IF i = 0 THEN Err("Decode")
        ELSE IF size < RowSize(fh.file[i]) THEN Err("Decode")
        ELSE Ok(fh.file[i])

\* FileHandlerImpl::update with the encoding of `row`: overwrites, in place,
\* RowSize(row) bytes from `offset`; the row written has the size of the row
\* read there, so the rows after it keep their place
FileHandlerImpl_update(fh, offset, row) ==
    LET i == RowAt(fh.file, offset)
    IN  [fh EXCEPT !.file = [fh.file EXCEPT ![i] = row]]

RECURSIVE ReadRowsFrom(_, _)
\* the loop of read_all: decode a row at pos, advance pos by its encoded
\* size, until nothing decodes
ReadRowsFrom(f, pos) ==
    LET i == RowAt(f, pos)
    IN  IF i = 0 THEN << >>
        ELSE << f[i] >> \o ReadRowsFrom(f, pos + RowSize(f[i]))

(* ------------------------------------------------------------------ *)
(* storageengine::operations: DbOperationsImpl                         *)
(* ------------------------------------------------------------------ *)

DbOperationsImpl_insert(fh, data, transaction_id) ==
    LET header == Header(transaction_id, NONE_SENTINEL,
                         HeaderSize + VecSize(data),
                         transaction_id, NONE_SENTINEL)
        row == Row(header, data)
        r == FileHandlerImpl_append(fh, row)
    IN  [fh |-> r.fh, os |-> OffsetSize(r.offset, RowSize(row))]

DbOperationsImpl_read_with_offset(fh, offset_size) ==
    FileHandlerImpl_read(fh, offset_size.offset, offset_size.size)

DbOperationsImpl_read_all(fh) == ReadRowsFrom(fh.file, 0)

\* a header overwrite that also stores the transaction id as the length
TombstoneRow_resized(row, transaction_id) ==
    [row EXCEPT !.header.xmax = transaction_id,
                !.header.tuple_length = transaction_id]

\* the header overwrite shared by update_with_offset and delete_with_offset:
\* only xmax is assigned
TombstoneRow(row, transaction_id) ==
    [row EXCEPT !.header.xmax = transaction_id]

DbOperationsImpl_delete_with_offset(fh, offset_size, transaction_id) ==
    LET r == DbOperationsImpl_read_with_offset(fh, offset_size)
    IN  IF ~r.ok THEN [ok |-> FALSE, fh |-> fh]
        ELSE [ok |-> TRUE,
              fh |-> FileHandlerImpl_update(fh, offset_size.offset,
                                            TombstoneRow(r.val, transaction_id))]

DbOperationsImpl_update_with_offset(fh, old_offset_size, data, transaction_id) ==
    LET r == DbOperationsImpl_read_with_offset(fh, old_offset_size)
    IN  IF ~r.ok THEN [ok |-> FALSE, fh |-> fh, os |-> old_offset_size]
        ELSE LET fh1 == FileHandlerImpl_update(fh, old_offset_size.offset,
                                               TombstoneRow(r.val, transaction_id))
                 ins == DbOperationsImpl_insert(fh1, data, transaction_id)
             IN  [ok |-> TRUE, fh |-> ins.fh, os |-> ins.os]

(* ------------------------------------------------------------------ *)
(* Documents and their bincode encoding                                *)
(* ------------------------------------------------------------------ *)

\* documents ids (Vec<u8>): "a", "b", "c"; the model uses the first two
IdA == << 97 >>

IdB == << 98 >>

IdC == << 99 >>

Ids == {IdA, IdB}

\* document values (Vec<u8>) of two different lengths
Values == { << 1 >>, << 2, 3 >> }

Document(id, value) == [id |-> id, value |-> value]

Documents == [id : Ids, value : Values]

\* a u64 below 256 in bincode's fixed-width little-endian encoding
U64LE(n) == << n, 0, 0, 0, 0, 0, 0, 0 >>

\* bincode::serialize(&document): each Vec<u8> is its length, then its bytes
SerializeDocument(document) ==
    U64LE(Len(document.id)) \o document.id
        \o U64LE(Len(document.value)) \o document.value

\* bincode::deserialize::<Document>(&row.data)
DeserializeDocument(data) ==
    IF Len(data) < U64Size THEN Err("Decode")
    ELSE LET n == data[1]
         IN  IF Len(data) < U64Size + n + U64Size THEN Err("Decode")
             ELSE LET m == data[U64Size + n + 1]
                  IN  IF Len(data) < U64Size + n + U64Size + m THEN Err("Decode")
                      ELSE Ok(Document(
                               SubSeq(data, U64Size + 1, U64Size + n),
                               SubSeq(data, U64Size + n + U64Size + 1,
                                            U64Size + n + U64Size + m)))

(* ------------------------------------------------------------------ *)
(* Maps (HashMap / BTreeMap) as functions on a finite set of keys       *)
(* ------------------------------------------------------------------ *)

EmptyMap == [k \in {} |-> 0]

MapInsert(m, k, v) == [x \in DOMAIN m \cup {k} |-> IF x = k THEN v ELSE m[x]]

MapRemove(m, k) == [x \in DOMAIN m \ {k} |-> m[x]]

(* ------------------------------------------------------------------ *)
(* indexengine::hashmap::HashMapIndex and indexengine::btree::BTree     *)
(* An index is [fh, map, transaction_id, ...]; an operation returns the *)
(* index after the call and the call's result.                          *)
(* ------------------------------------------------------------------ *)

RECURSIVE BootstrapRows(_, _, _, _)
\* the loop of HashMapIndex::new and BTree::new over the rows of read_all:
\* a row is skipped when its cmax is not the sentinel; the running offset
\* advances by tuple_length either way
BootstrapRows(rows, k, offset, map) ==
    IF k > Len(rows) THEN map
    ELSE LET row == rows[k]
         IN  IF row.header.cmax # NONE_SENTINEL
             THEN BootstrapRows(rows, k + 1, offset + row.header.tuple_length, map)
             ELSE BootstrapRows(rows, k + 1, offset + row.header.tuple_length,
                      MapInsert(map, DeserializeDocument(row.data).val.id,
                                OffsetSize(offset, row.header.tuple_length)))

MapIndex_new(fh) ==
    LET map == BootstrapRows(DbOperationsImpl_read_all(fh), 1, 0, EmptyMap)
    IN  [fh |-> fh, map |-> map, transaction_id |-> Cardinality(DOMAIN map)]

HashMapIndex_new(fh) == MapIndex_new(fh)

BTree_new(fh) == MapIndex_new(fh)

\* search of HashMapIndex and of BTree (the same code)
MapIndex_search(ix, id) ==
    IF id \notin DOMAIN ix.map THEN Err("NotFound")
    ELSE LET r == DbOperationsImpl_read_with_offset(ix.fh, ix.map[id])
         IN  IF ~r.ok THEN r ELSE DeserializeDocument(r.val.data)

HashMapIndex_search(ix, id) == MapIndex_search(ix, id)

BTree_search(ix, id) == MapIndex_search(ix, id)

\* the append, the map entry and the transaction id of a successful insert
MapIndex_store(ix, document) ==
    LET ins == DbOperationsImpl_insert(ix.fh, SerializeDocument(document),
                                       ix.transaction_id)
    IN  [ix EXCEPT !.fh = ins.fh,
                   !.map = MapInsert(ix.map, document.id, ins.os),
                   !.transaction_id = ix.transaction_id + 1]

\* HashMapIndex::insert: no check that the id is known
HashMapIndex_insert(ix, document) ==
    [ix |-> MapIndex_store(ix, document), res |-> "Ok"]

\* BTree::insert: AlreadyExists when search of the id succeeds
BTree_insert(ix, document) ==
    IF BTree_search(ix, document.id).ok
    THEN [ix |-> ix, res |-> "AlreadyExists"]
    ELSE [ix |-> MapIndex_store(ix, document), res |-> "Ok"]

\* delete of HashMapIndex and of BTree (the same code)
MapIndex_delete(ix, id) ==
    IF id \notin DOMAIN ix.map THEN [ix |-> ix, res |-> "NotFound"]
    ELSE LET d == DbOperationsImpl_delete_with_offset(ix.fh, ix.map[id],
                                                      ix.transaction_id)
         IN  IF ~d.ok THEN [ix |-> ix, res |-> "Io"]
             ELSE [ix |-> [ix EXCEPT !.fh = d.fh,
                                     !.map = MapRemove(ix.map, id),
                                     !.transaction_id = ix.transaction_id + 1],
                   res |-> "Ok"]

HashMapIndex_delete(ix, id) == MapIndex_delete(ix, id)

BTree_delete(ix, id) == MapIndex_delete(ix, id)

\* an update that writes the document whether or not the id is known
MapIndex_update_upsert(ix, id, document) ==
    [ix |-> MapIndex_store(ix, document), res |-> "Ok"]

\* update of HashMapIndex and of BTree (the same code): the entry written
\* is the one of document.id
MapIndex_update(ix, id, document) ==
    IF id \notin DOMAIN ix.map THEN [ix |-> ix, res |-> "NotFound"]
    ELSE LET u == DbOperationsImpl_update_with_offset(ix.fh, ix.map[id],
                      SerializeDocument(document), ix.transaction_id)
         IN  IF ~u.ok THEN [ix |-> ix, res |-> "Io"]
             ELSE [ix |-> [ix EXCEPT !.fh = u.fh,
                                     !.map = MapInsert(ix.map, document.id, u.os),
                                     !.transaction_id = ix.transaction_id + 1],
                   res |-> "Ok"]

HashMapIndex_update(ix, id, document) == MapIndex_update(ix, id, document)

BTree_update(ix, id, document) == MapIndex_update(ix, id, document)

(* ------------------------------------------------------------------ *)
(* bloomfilter::BloomFilter                                            *)
(* ------------------------------------------------------------------ *)

\* the digests are wider than TLC's integers: a hash is kept modulo 2^16
\* (its last four hex digits), which leaves `hash % size` exact for every
\* filter size that divides 2^16

\* Md5Hasher::hash: md5 of "a", "b", "c" and of the encoded keys "a" and
\* "b" of the service
Md5Hasher_hash(data) ==
    CASE data = IdA -> 9825
      [] data = IdB -> 22415
      [] data = IdC -> 24371
      [] data = << 26, 1, 97 >> -> 60424
      [] data = << 26, 1, 98 >> -> 48270

\* Sha256Hasher::hash: sha256 of the same
Sha256Hasher_hash(data) ==
    CASE data = IdA -> 18619
      [] data = IdB -> 157
      [] data = IdC -> 61382
      [] data = << 26, 1, 97 >> -> 31511
      [] data = << 26, 1, 98 >> -> 24357

\* the elements a caller hands to the filter
BloomElements == {IdA, IdB, IdC}

BloomFilter_new(size) ==
    [bitmap |-> [i \in 0..(size - 1) |-> FALSE], size |-> size, counter |-> EmptyMap]

\* one of the two steps of BloomFilter::insert
BloomSet_flat(bf, insert_index) ==
    [bf EXCEPT !.bitmap[insert_index] = TRUE,
               !.counter = MapInsert(bf.counter, insert_index, 1)]

BloomSet(bf, insert_index) ==
    [bf EXCEPT !.bitmap[insert_index] = TRUE,
               !.counter = MapInsert(bf.counter, insert_index,
                              1 + (IF insert_index \in DOMAIN bf.counter
                                   THEN bf.counter[insert_index] ELSE 0))]

BloomFilter_insert(bf, data) ==
    BloomSet(BloomSet(bf, Md5Hasher_hash(data) % bf.size),
             Sha256Hasher_hash(data) % bf.size)

BloomFilter_check(bf, data) ==
    /\ bf.bitmap[Md5Hasher_hash(data) % bf.size]
    /\ bf.bitmap[Sha256Hasher_hash(data) % bf.size]

\* one of the two steps of BloomFilter::remove
BloomUnset_clears(bf, insert_index) ==
    IF insert_index \notin DOMAIN bf.counter THEN bf
    ELSE [bf EXCEPT !.bitmap[insert_index] = FALSE,
                    !.counter[insert_index] = IF @ > 0 THEN @ - 1 ELSE 0]

BloomUnset(bf, insert_index) ==
    IF insert_index \notin DOMAIN bf.counter THEN bf
    ELSE LET el == bf.counter[insert_index] - 1
         IN  IF el <= 0
             THEN [bf EXCEPT !.bitmap[insert_index] = FALSE,
                             !.counter[insert_index] = 0]
             ELSE [bf EXCEPT !.counter[insert_index] = el]

BloomFilter_remove(bf, data) ==
    BloomUnset(BloomUnset(bf, Md5Hasher_hash(data) % bf.size),
               Sha256Hasher_hash(data) % bf.size)

(* ------------------------------------------------------------------ *)
(* indexengine::lsm_tree::LsmTree                                      *)
(* ss_tables is the SS-table directory: file ss_table_<k> is element    *)
(* k + 1. cwd_files are the files of the same names in the working      *)
(* directory of the process, k |-> the map the file decodes to.         *)
(* `order` is the order in which fs::read_dir lists the directory.      *)
(* ------------------------------------------------------------------ *)

\* the (tree_size, bloom_filter_size) arguments of LsmTree::new used by the
\* model: a tree that flushes every entry with a filter of 4 positions, in
\* which "a" and "b" hash to the same two positions, and a tree that flushes
\* at two entries with a filter of 8 positions, in which they share none
LsmArguments == { << 1, 4 >>, << 2, 8 >> }

LsmMapLeaf(offset_size, is_deleted) ==
    [offset_size |-> offset_size, is_deleted |-> is_deleted]

\* LsmTree::flush_tree_to_disk: the file is named after the number of
\* files the directory holds
LsmTree_flush_tree_to_disk_keeps_map(ix) ==
    [ix EXCEPT !.ss_tables = Append(ix.ss_tables, ix.map)]

LsmTree_flush_tree_to_disk(ix) ==
    [ix EXCEPT !.ss_tables = Append(ix.ss_tables, ix.map), !.map = EmptyMap]

\* LsmTree::handle_db_row for a row found at `offset`
LsmTree_handle_db_row(ix, row, offset) ==
    IF row.header.cmax # NONE_SENTINEL THEN ix
    ELSE LET id == DeserializeDocument(row.data).val.id
             ix1 == [ix EXCEPT
                       !.map = MapInsert(ix.map, id,
                                 LsmMapLeaf(OffsetSize(offset, row.header.tuple_length),
                                            FALSE)),
                       !.bloom_filter = BloomFilter_insert(ix.bloom_filter, id)]
         IN  IF Cardinality(DOMAIN ix1.map) = ix.tree_size
             THEN LsmTree_flush_tree_to_disk(ix1) ELSE ix1

RECURSIVE LsmProcessRows(_, _, _, _)
\* the loop of LsmTree::process_db_rows
LsmProcessRows(ix, rows, k, offset) ==
    IF k > Len(rows) THEN ix
    ELSE LsmProcessRows(LsmTree_handle_db_row(ix, rows[k], offset), rows, k + 1,
                        offset + rows[k].header.tuple_length)

\* LsmTree::new: the directory is emptied, the rows are processed and the
\* transaction id is the size the in-memory map has at the end
LsmTree_new(fh, cwd, tree_size, bloom_filter_size) ==
    LET ix0 == [fh |-> fh, map |-> EmptyMap, transaction_id |-> 0,
                bloom_filter |-> BloomFilter_new(bloom_filter_size),
                tree_size |-> tree_size,
                ss_tables |-> << >>, cwd_files |-> cwd]
        ix1 == LsmProcessRows(ix0, DbOperationsImpl_read_all(fh), 1, 0)
    IN  [ix1 EXCEPT !.transaction_id = Cardinality(DOMAIN ix1.map)]

RECURSIVE LsmTree_search_in_files(_, _, _, _)
\* LsmTree::search_in_files from position k of the listing: the first file
\* that has the id decides, whatever its entry's is_deleted says
LsmTree_search_in_files(ix, id, order, k) ==
    IF k > Len(order) THEN Err("NotFound")
    ELSE LET map == ix.ss_tables[order[k]]
         IN  IF id \in DOMAIN map
             THEN LET r == DbOperationsImpl_read_with_offset(ix.fh, map[id].offset_size)
                  IN  IF ~r.ok THEN r ELSE DeserializeDocument(r.val.data)
             ELSE LsmTree_search_in_files(ix, id, order, k + 1)

LsmTree_search(ix, id, order) ==
    IF ~BloomFilter_check(ix.bloom_filter, id) THEN Err("NotFound")
    ELSE IF id \in DOMAIN ix.map
    THEN LET r == DbOperationsImpl_read_with_offset(ix.fh, ix.map[id].offset_size)
         IN  IF ~r.ok THEN r ELSE DeserializeDocument(r.val.data)
    ELSE LsmTree_search_in_files(ix, id, order, 1)

\* a write to a file opened with append and create: a new file holds the
\* map written; an existing file gets the bytes after its end, where no
\* decoder of the file looks, so what the file decodes to stays
AppendToFile(files, name, written) ==
    IF name \in DOMAIN files THEN files ELSE MapInsert(files, name, written)

\* LsmTree::process_file with handle_map_leaf on file ss_table_<k - 1>: the
\* updated map is written to the file of that bare name, which is a file
\* of the working directory, not of the SS-table directory
LsmTree_process_file(ix, k, id) ==
    LET map == ix.ss_tables[k]
    IN  IF id \notin DOMAIN map THEN [ok |-> FALSE, ix |-> ix]
        ELSE IF map[id].is_deleted THEN [ok |-> FALSE, ix |-> ix]
        ELSE LET d == DbOperationsImpl_delete_with_offset(ix.fh, map[id].offset_size,
                                                          ix.transaction_id)
                 written == [map EXCEPT ![id].is_deleted = TRUE]
             IN  IF ~d.ok THEN [ok |-> FALSE, ix |-> ix]
                 ELSE [ok |-> TRUE,
                       ix |-> [ix EXCEPT
                                 !.fh = d.fh,
                                 !.transaction_id = ix.transaction_id + 1,
                                 !.bloom_filter = BloomFilter_remove(ix.bloom_filter, id),
                                 !.cwd_files = AppendToFile(ix.cwd_files, k - 1,
                                                            written)]]

RECURSIVE LsmTree_mark_ss_table_as_deleted(_, _, _, _)
\* LsmTree::mark_ss_table_as_deleted from position k of the listing: the
\* first file whose process_file succeeds ends the loop
LsmTree_mark_ss_table_as_deleted(ix, id, order, k) ==
    IF k > Len(order) THEN [ok |-> FALSE, ix |-> ix]
    ELSE LET p == LsmTree_process_file(ix, order[k], id)
         IN  IF p.ok THEN p
             ELSE LsmTree_mark_ss_table_as_deleted(ix, id, order, k + 1)

LsmTree_insert(ix, document, order) ==
    IF LsmTree_search(ix, document.id, order).ok
    THEN [ix |-> ix, res |-> "AlreadyExists"]
    ELSE LET ins == DbOperationsImpl_insert(ix.fh, SerializeDocument(document),
                                            ix.transaction_id)
             ix1 == [ix EXCEPT !.fh = ins.fh,
                               !.map = MapInsert(ix.map, document.id,
                                                 LsmMapLeaf(ins.os, FALSE))]
             ix2 == IF Cardinality(DOMAIN ix1.map) = ix.tree_size
                    THEN LsmTree_flush_tree_to_disk(ix1) ELSE ix1
         IN  [ix |-> [ix2 EXCEPT
                        !.bloom_filter = BloomFilter_insert(ix2.bloom_filter, document.id),
                        !.transaction_id = ix2.transaction_id + 1],
              res |-> "Ok"]

LsmTree_delete(ix, id, order) ==
    IF ~BloomFilter_check(ix.bloom_filter, id) THEN [ix |-> ix, res |-> "NotFound"]
    ELSE IF id \in DOMAIN ix.map
    THEN LET d == DbOperationsImpl_delete_with_offset(ix.fh, ix.map[id].offset_size,
                                                      ix.transaction_id)
         IN  IF ~d.ok THEN [ix |-> ix, res |-> "Io"]
             ELSE [ix |-> [ix EXCEPT
                             !.fh = d.fh,
                             !.map = MapRemove(ix.map, id),
                             !.bloom_filter = BloomFilter_remove(ix.bloom_filter, id),
                             !.transaction_id = ix.transaction_id + 1],
                   res |-> "Ok"]
    ELSE LET m == LsmTree_mark_ss_table_as_deleted(ix, id, order, 1)
         IN  [ix |-> m.ix, res |-> IF m.ok THEN "Ok" ELSE "NotFound"]

\* LsmTree::update_ss_table
LsmTree_update_ss_table(ix, id, document, order) ==
    LET m == LsmTree_mark_ss_table_as_deleted(ix, id, order, 1)
    IN  IF m.ok THEN LsmTree_insert(m.ix, document, order)
        ELSE [ix |-> ix, res |-> "NotFound"]

LsmTree_update(ix, id, document, order) ==
    IF ~BloomFilter_check(ix.bloom_filter, id) THEN [ix |-> ix, res |-> "NotFound"]
    ELSE IF id \in DOMAIN ix.map
    THEN LET u == DbOperationsImpl_update_with_offset(ix.fh, ix.map[id].offset_size,
                      SerializeDocument(document), ix.transaction_id)
         IN  IF ~u.ok THEN [ix |-> ix, res |-> "Io"]
             ELSE [ix |-> [ix EXCEPT
                             !.fh = u.fh,
                             !.map = MapInsert(ix.map, document.id,
                                               LsmMapLeaf(u.os, FALSE)),
                             !.transaction_id = ix.transaction_id + 1],
                   res |-> "Ok"]
    ELSE LsmTree_update_ss_table(ix, id, document, order)

(* ------------------------------------------------------------------ *)
(* indexengine::no_index::NoIndex: every call reads the whole file      *)
(* ------------------------------------------------------------------ *)

RECURSIVE NoIndex_scan(_, _, _, _)
\* the loop shared by search, delete and update: the first row from position
\* k on whose document has the id, with the offset the loop has summed up
NoIndex_scan(rows, id, k, offset) ==
    IF k > Len(rows) THEN [found |-> FALSE, row |-> 0, os |-> OffsetSize(0, 0)]
    ELSE IF DeserializeDocument(rows[k].data).val.id = id
    THEN [found |-> TRUE, row |-> k, os |-> OffsetSize(offset, rows[k].header.tuple_length)]
    ELSE NoIndex_scan(rows, id, k + 1, offset + rows[k].header.tuple_length)

NoIndex_insert(ix, document) ==
    LET ins == DbOperationsImpl_insert(ix.fh, SerializeDocument(document), ix.transaction_id)
    IN  [ix |-> [ix EXCEPT !.fh = ins.fh, !.transaction_id = ix.transaction_id + 1],
         res |-> "Ok"]

NoIndex_search(ix, id) ==
    LET rows == DbOperationsImpl_read_all(ix.fh)
        hit == NoIndex_scan(rows, id, 1, 0)
    IN  IF hit.found THEN DeserializeDocument(rows[hit.row].data) ELSE Err("NotFound")

NoIndex_delete(ix, id) ==
    LET hit == NoIndex_scan(DbOperationsImpl_read_all(ix.fh), id, 1, 0)
        d == DbOperationsImpl_delete_with_offset(ix.fh, hit.os, ix.transaction_id)
    IN  IF ~hit.found THEN [ix |-> ix, res |-> "NotFound"]
        ELSE IF ~d.ok THEN [ix |-> ix, res |-> "Io"]
        ELSE [ix |-> [ix EXCEPT !.fh = d.fh, !.transaction_id = ix.transaction_id + 1],
              res |-> "Ok"]

NoIndex_update(ix, id, document) ==
    LET hit == NoIndex_scan(DbOperationsImpl_read_all(ix.fh), id, 1, 0)
        u == DbOperationsImpl_update_with_offset(ix.fh, hit.os, SerializeDocument(document),
                                                 ix.transaction_id)
    IN  IF ~hit.found THEN [ix |-> ix, res |-> "NotFound"]
        ELSE IF ~u.ok THEN [ix |-> ix, res |-> "Io"]
        ELSE [ix |-> [ix EXCEPT !.fh = u.fh, !.transaction_id = ix.transaction_id + 1],
              res |-> "Ok"]

(* ------------------------------------------------------------------ *)
(* State                                                               *)
(* ------------------------------------------------------------------ *)

VARIABLES
    file,            \* the rows of the backing file
    pos,             \* stream position of the file handler's writer
    engine,          \* the index strategy of the node
    map,             \* the in-memory map of the index
    transaction_id,  \* the transaction id of the index
    bloom_filter,    \* the Bloom filter of the LSM index
    tree_size,       \* the map size at which the LSM index flushes
    ss_tables,       \* the files of the SS-table directory
    cwd_files,       \* files written under bare SS-table names
    restarts,        \* times the process has been started again
    last,            \* the last call and its result
    ref,             \* per id, the value of its last successful insert or
                     \* update, << >> after a successful delete or before any
    inserted,        \* the ids some insert has succeeded for
    issued,          \* operations layer: every range an append returned, with
                     \* the payload and transaction id it was returned for
    dead,            \* operations layer: the entries of `issued` whose range
                     \* a successful update_with_offset or delete_with_offset
                     \* was called with
    is_leader,       \* service: what the coordination client's is_leader() says
    channel,         \* service: the replication records waiting in the channel
    sent,            \* service: the RPCs the replicator has sent to followers
    response,        \* service: the last RPC handled and the status answered
    lock,            \* service: whether a handler holds the index mutex
    pc,              \* service: per client, the RPC being served ("idle" when none)
    pending,         \* service: per client, the record its handler is about to send
    applied,         \* service: the records of the writes applied, in order of application
    latch,           \* coordination: the members of the leader latch, oldest first
    registry,        \* coordination: the nodes under the service-registry path
    instances,       \* coordination: per client, its in-memory instance list
    events,          \* coordination: per client, the watch events not yet handled
    watches,         \* coordination: per client, the children-watches it has armed
    address_managers, \* router: per partition, its address manager
    forwarded,       \* router: where the last request went, None when nowhere
    members,         \* Bloom filter: per element, its inserts not yet removed
    replicas,        \* partition: per node, the index its service holds
    channels,        \* partition: per node, the records waiting in its channel
    outbox,          \* partition: per node, the requests its replicator has still
                     \* to send for the record it received
    accepted,        \* partition: the client writes the nodes have accepted
    mutations        \* partition: per node, the index calls that have succeeded

vars == << file, pos, engine, map, transaction_id, bloom_filter, tree_size, ss_tables,
           cwd_files, restarts, last, ref, inserted, issued, dead,
           is_leader, channel, sent, response, lock, pc, pending, applied,
           latch, registry, instances, events, watches, address_managers, forwarded,
           members, replicas, channels, outbox, accepted, mutations >>

indexVars == << engine, map, transaction_id, bloom_filter, tree_size, ss_tables, cwd_files,
                restarts, last, ref, inserted >>

opsVars == << issued, dead >>

taskVars == << lock, pc, pending, applied >>

coordinationVars == << latch, registry, instances, events, watches >>

routerVars == << address_managers, forwarded, members >>

partitionVars == << replicas, channels, outbox, accepted, mutations >>

serverVars == << is_leader, channel, sent, response, taskVars, coordinationVars, routerVars,
                 partitionVars >>

NoValue == << >>

NoDocument == Document(<< >>, << >>)

Engines == {"HashMap", "BTree", "LSM", "NoIndex"}

\* the strategies that keep every entry in a map in memory
MapEngines == {"HashMap", "BTree"}

\* the index the variables hold, as the record the operators work on
Ix ==
    [fh |-> [file |-> file, pos |-> pos], map |-> map,
     transaction_id |-> transaction_id, bloom_filter |-> bloom_filter,
     tree_size |-> tree_size, ss_tables |-> ss_tables, cwd_files |-> cwd_files]

SetIx(ix) ==
    /\ file' = ix.fh.file
    /\ pos' = ix.fh.pos
    /\ map' = ix.map
    /\ transaction_id' = ix.transaction_id
    /\ bloom_filter' = ix.bloom_filter
    /\ tree_size' = ix.tree_size
    /\ ss_tables' = ix.ss_tables
    /\ cwd_files' = ix.cwd_files

HoldsIx(ix) ==
    /\ file = ix.fh.file
    /\ pos = ix.fh.pos
    /\ map = ix.map
    /\ transaction_id = ix.transaction_id
    /\ bloom_filter = ix.bloom_filter
    /\ tree_size = ix.tree_size
    /\ ss_tables = ix.ss_tables
    /\ cwd_files = ix.cwd_files

\* read_dir promises no order: the model lists the n files of the SS-table
\* directory oldest first or newest first (every order there is, up to two
\* files)
Orders(n) == { [i \in 1..n |-> i], [i \in 1..n |-> n + 1 - i] }

(* ------------------------------------------------------------------ *)
(* indexengine::new_index_engine and the calls through dyn Index        *)
(* ------------------------------------------------------------------ *)

\* the Bloom filter field of an index that has none
NoBloomFilter == BloomFilter_new(0)

\* new_index_engine on a freshly opened file handler
new_index_engine(e, f, cwd, size, bloom_filter_size) ==
    LET fh == FileHandlerImpl_new(f)
        m == IF e = "HashMap" THEN HashMapIndex_new(fh) ELSE BTree_new(fh)
    IN  IF e = "LSM" THEN LsmTree_new(fh, cwd, size, bloom_filter_size)
        ELSE IF e = "NoIndex"
        THEN [fh |-> fh, map |-> EmptyMap, transaction_id |-> 0,
              bloom_filter |-> NoBloomFilter, tree_size |-> 0,
              ss_tables |-> << >>, cwd_files |-> cwd]
        ELSE [fh |-> fh, map |-> m.map, transaction_id |-> m.transaction_id,
              bloom_filter |-> NoBloomFilter, tree_size |-> 0,
              ss_tables |-> << >>, cwd_files |-> cwd]

Index_insert(e, ix, document, order) ==
    CASE e = "HashMap" -> HashMapIndex_insert(ix, document)
      [] e = "BTree" -> BTree_insert(ix, document)
      [] e = "LSM" -> LsmTree_insert(ix, document, order)
      [] e = "NoIndex" -> NoIndex_insert(ix, document)

Index_search(e, ix, id, order) ==
    CASE e = "HashMap" -> HashMapIndex_search(ix, id)
      [] e = "BTree" -> BTree_search(ix, id)
      [] e = "LSM" -> LsmTree_search(ix, id, order)
      [] e = "NoIndex" -> NoIndex_search(ix, id)

Index_delete(e, ix, id, order) ==
    CASE e = "HashMap" -> HashMapIndex_delete(ix, id)
      [] e = "BTree" -> BTree_delete(ix, id)
      [] e = "LSM" -> LsmTree_delete(ix, id, order)
      [] e = "NoIndex" -> NoIndex_delete(ix, id)

Index_update(e, ix, id, document, order) ==
    CASE e = "HashMap" -> HashMapIndex_update(ix, id, document)
      [] e = "BTree" -> BTree_update(ix, id, document)
      [] e = "LSM" -> LsmTree_update(ix, id, document, order)
      [] e = "NoIndex" -> NoIndex_update(ix, id, document)

\* the result of a search as the status and document a caller sees
SearchStatus(r) == IF r.ok THEN "Ok" ELSE r.err

SearchDocument(r) == IF r.ok THEN r.val ELSE NoDocument

(* ------------------------------------------------------------------ *)
(* The index of one node: calls in any order, and restarts              *)
(* ------------------------------------------------------------------ *)

Call(op, id, res) == [op |-> op, id |-> id, res |-> res]

\* the processes that may run a coordination client
Nodes == {"n1", "n2", "n3"}

\* the clients whose requests a node serves at the same time
Clients == {"c1", "c2"}

\* no record
NoRecord == << >>

\* the answer of an RPC
Answer(rpc, status) == [rpc |-> rpc, status |-> status]

\* the service variables of a process no request has reached
InitNodeIdle ==
    /\ is_leader = FALSE
    /\ channel = << >>
    /\ sent = << >>
    /\ response = Answer("none", "ok")
    /\ lock = FALSE
    /\ pc = [c \in Clients |-> "idle"]
    /\ pending = [c \in Clients |-> NoRecord]
    /\ applied = << >>
    /\ latch = << >>
    /\ registry = EmptyMap
    /\ instances = [n \in Nodes |-> EmptyMap]
    /\ events = [n \in Nodes |-> << >>]
    /\ watches = [n \in Nodes |-> {}]
    /\ replicas = [n \in Nodes |-> new_index_engine("BTree", << >>, EmptyMap, 0, 0)]
    /\ channels = [n \in Nodes |-> << >>]
    /\ outbox = [n \in Nodes |-> << >>]
    /\ accepted = 0
    /\ mutations = [n \in Nodes |-> 0]

\* a node holds no address managers and forwards nothing
InitServerIdle ==
    /\ InitNodeIdle
    /\ address_managers = << >>
    /\ forwarded = [some |-> FALSE, v |-> << >>]
    /\ members = [x \in BloomElements |-> 0]

InitIndex ==
    /\ engine \in Engines
    /\ \E args \in LsmArguments :
           HoldsIx(new_index_engine(engine, << >>, EmptyMap, args[1], args[2]))
    /\ restarts = 0
    /\ last = Call("new", << >>, "Ok")
    /\ ref = [id \in Ids |-> NoValue]
    /\ inserted = {}
    /\ issued = << >>
    /\ dead = {}
    /\ InitServerIdle

\* the orders the directory may be listed in during one call
CallOrders == IF engine = "LSM" THEN Orders(Len(ss_tables)) ELSE {<< >>}

\* Index::insert through the node's index
Insert(document) ==
    /\ transaction_id < MaxTransactionId
    /\ \E order \in CallOrders :
        LET r == Index_insert(engine, Ix, document, order)
        IN  /\ Len(r.ix.fh.file) <= MaxRows
            /\ SetIx(r.ix)
            /\ last' = Call("insert", document.id, r.res)
            /\ ref' = IF r.res = "Ok"
                      THEN [ref EXCEPT ![document.id] = document.value] ELSE ref
            /\ inserted' = IF r.res = "Ok" THEN inserted \cup {document.id}
                           ELSE inserted
            /\ UNCHANGED << engine, restarts, opsVars, serverVars >>

\* Index::search through the node's index
Search(id) ==
    \E order \in CallOrders :
        LET r == Index_search(engine, Ix, id, order)
        IN  /\ last' = Call("search", id, SearchStatus(r))
            /\ UNCHANGED << file, pos, engine, map, transaction_id, bloom_filter,
                            tree_size, ss_tables, cwd_files, restarts, ref, inserted, opsVars, serverVars >>

\* Index::delete through the node's index
Delete(id) ==
    /\ transaction_id < MaxTransactionId
    /\ \E order \in CallOrders :
        LET r == Index_delete(engine, Ix, id, order)
        IN  /\ SetIx(r.ix)
            /\ last' = Call("delete", id, r.res)
            /\ ref' = IF r.res = "Ok" THEN [ref EXCEPT ![id] = NoValue] ELSE ref
            /\ UNCHANGED << engine, restarts, inserted, opsVars, serverVars >>

\* Index::update through the node's index; the callers (the service and the
\* command line) pass a document whose id is the id updated
Update(document) ==
    /\ transaction_id < MaxTransactionId
    /\ \E order \in CallOrders :
        LET r == Index_update(engine, Ix, document.id, document, order)
        IN  /\ Len(r.ix.fh.file) <= MaxRows
            /\ SetIx(r.ix)
            /\ last' = Call("update", document.id, r.res)
            /\ ref' = IF r.res = "Ok"
                      THEN [ref EXCEPT ![document.id] = document.value] ELSE ref
            /\ UNCHANGED << engine, restarts, inserted, opsVars, serverVars >>

\* the process ends and a new one opens the same file with the same strategy
Restart ==
    /\ restarts < MaxRestarts
    /\ restarts' = restarts + 1
    /\ SetIx(new_index_engine(engine, file, cwd_files, tree_size, bloom_filter.size))
    /\ last' = Call("new", << >>, "Ok")
    /\ UNCHANGED << engine, ref, inserted, opsVars, serverVars >>

NextIndex ==
    \/ \E document \in Documents : Insert(document)
    \/ \E id \in Ids : Search(id)
    \/ \E id \in Ids : Delete(id)
    \/ \E document \in Documents : Update(document)
    \/ Restart

SpecIndex == InitIndex /\ [][NextIndex]_vars

(* ------------------------------------------------------------------ *)
(* The operations layer called directly, as its tests call it; the      *)
(* handler may be dropped and opened again on the same file             *)
(* ------------------------------------------------------------------ *)

\* payloads handed to DbOperations::insert and update_with_offset
Payloads == { << 1 >>, << 2, 3 >> }

\* what one append was asked to write and the range it returned
Issued(offset_size, data, txid) ==
    [os |-> offset_size, data |-> data, txid |-> txid]

\* the file handler the variables hold
Fh == [file |-> file, pos |-> pos]

InitOps ==
    /\ engine = "BTree"
    /\ HoldsIx(new_index_engine("BTree", << >>, EmptyMap, 0, 0))
    /\ restarts = 0
    /\ last = Call("new", << >>, "Ok")
    /\ ref = [id \in Ids |-> NoValue]
    /\ inserted = {}
    /\ issued = << >>
    /\ dead = {}
    /\ InitServerIdle

\* DbOperations::insert(data, transaction_id)
OpsInsert(data, txid) ==
    /\ Len(file) < MaxRows
    /\ LET r == DbOperationsImpl_insert(Fh, data, txid)
       IN  /\ file' = r.fh.file
           /\ pos' = r.fh.pos
           /\ issued' = Append(issued, Issued(r.os, data, txid))
           /\ last' = Call("ops_insert", << >>, "Ok")
           /\ UNCHANGED << engine, map, transaction_id, bloom_filter, tree_size,
                           ss_tables, cwd_files, restarts, ref, inserted, dead,
                           serverVars >>

\* DbOperations::update_with_offset with the range the k-th append returned
OpsUpdate(k, data, txid) ==
    /\ Len(file) < MaxRows
    /\ LET u == DbOperationsImpl_update_with_offset(Fh, issued[k].os, data, txid)
       IN  /\ file' = u.fh.file
           /\ pos' = u.fh.pos
           /\ issued' = IF u.ok THEN Append(issued, Issued(u.os, data, txid))
                        ELSE issued
           /\ dead' = IF u.ok THEN dead \cup {k} ELSE dead
           /\ last' = Call("ops_update", << >>, IF u.ok THEN "Ok" ELSE "Io")
           /\ UNCHANGED << engine, map, transaction_id, bloom_filter, tree_size,
                           ss_tables, cwd_files, restarts, ref, inserted,
                           serverVars >>

\* DbOperations::delete_with_offset with the range the k-th append returned
OpsDelete(k, txid) ==
    LET d == DbOperationsImpl_delete_with_offset(Fh, issued[k].os, txid)
    IN  /\ file' = d.fh.file
        /\ dead' = IF d.ok THEN dead \cup {k} ELSE dead
        /\ last' = Call("ops_delete", << >>, IF d.ok THEN "Ok" ELSE "Io")
        /\ UNCHANGED << pos, engine, map, transaction_id, bloom_filter, tree_size,
                        ss_tables, cwd_files, restarts, ref, inserted, issued,
                        serverVars >>

\* the handler is dropped and FileHandlerImpl::new opens the file again
OpsReopen ==
    /\ restarts < MaxRestarts
    /\ restarts' = restarts + 1
    /\ pos' = FileHandlerImpl_new(file).pos
    /\ last' = Call("new", << >>, "Ok")
    /\ UNCHANGED << file, engine, map, transaction_id, bloom_filter, tree_size,
                    ss_tables, cwd_files, ref, inserted, opsVars, serverVars >>

NextOps ==
    \/ \E data \in Payloads : \E txid \in 0..MaxTxid : OpsInsert(data, txid)
    \/ \E k \in 1..Len(issued) : \E data \in Payloads : \E txid \in 0..MaxTxid :
           OpsUpdate(k, data, txid)
    \/ \E k \in 1..Len(issued) : \E txid \in 0..MaxTxid : OpsDelete(k, txid)
    \/ OpsReopen

SpecOps == InitOps /\ [][NextOps]_vars

(* ------------------------------------------------------------------ *)
(* server: KeyValueStoreImpl, the Key-Value Service of one node, and    *)
(* the replicator task that drains its channel                          *)
(* ------------------------------------------------------------------ *)

\* Option<T>
None == [some |-> FALSE, v |-> << >>]

Some(v) == [some |-> TRUE, v |-> v]

\* prost Message::encode_to_vec of a prost_types::Value that holds the
\* string v: the tag of field 3 with wire type 2, the length, the bytes
Value_encode_to_vec(v) == << 26, Len(v) >> \o v

\* the strings requests carry as keys and as values
RequestKeys == { << 97 >>, << 98 >> }

RequestValues == { << 120 >>, << 120, 121 >> }

OptionalKeys == {None} \cup {Some(k) : k \in RequestKeys}

OptionalValues == {None} \cup {Some(v) : v \in RequestValues}

KeyValue(key, value) == [key |-> key, value |-> value]

\* CreateRequest and UpdateRequest: an optional KeyValue of optional fields
KeyValueRequests ==
    {None} \cup {Some(KeyValue(k, v)) : k \in OptionalKeys, v \in OptionalValues}

Replication(action, key_value) == [action |-> action, key_value |-> key_value]

\* capacity of the channel between the handlers and the replicator
ChannelCapacity == 1000

\* records the model lets wait in the channel
MaxChannel == 2

\* tuples the model lets the storage file of a serving node hold
MaxServerRows == 2

\* a conversion that knows no index error
Status_from_internal(res) == "internal"

\* From<anyhow::Error> for ServerError, then From<ServerError> for Status
Status_from(res) ==
    CASE res = "AlreadyExists" -> "already_exists"
      [] res = "NotFound" -> "not_found"
      [] OTHER -> "internal"

\* the handler returns a status before it has touched index or channel
Reject(rpc, status) ==
    /\ response' = Answer(rpc, status)
    /\ UNCHANGED << file, pos, map, transaction_id, bloom_filter, tree_size,
                    ss_tables, cwd_files, channel >>

\* an end of the handlers that sends the record whatever the index answered
Finish_always_enqueues(rpc, r, replication) ==
    /\ SetIx(r.ix)
    /\ channel' = Append(channel, replication)
    /\ response' = Answer(rpc, IF r.res = "Ok" THEN "ok" ELSE Status_from(r.res))

\* the end of create, update and delete: the index call's error as a
\* status, or the record sent to the channel and the reply
Finish(rpc, r, replication) ==
    /\ SetIx(r.ix)
    /\ channel' = IF r.res = "Ok" THEN Append(channel, replication) ELSE channel
    /\ response' = Answer(rpc, IF r.res = "Ok" THEN "ok" ELSE Status_from(r.res))

\* a send waits while the channel is full; the model holds a write back
\* when the file, the transaction id or the channel is at its bound
CanWrite ==
    /\ transaction_id < MaxTransactionId
    /\ Len(file) < MaxServerRows
    /\ Len(channel) < ChannelCapacity
    /\ Len(channel) < MaxChannel

InitServer ==
    /\ engine \in MapEngines
    /\ HoldsIx(new_index_engine(engine, << >>, EmptyMap, 0, 0))
    /\ restarts = 0
    /\ last = Call("new", << >>, "Ok")
    /\ ref = [id \in Ids |-> NoValue]
    /\ inserted = {}
    /\ issued = << >>
    /\ dead = {}
    /\ InitServerIdle

\* KeyValueService::get
Get(key) ==
    /\ IF ~key.some THEN response' = Answer("get", "invalid_argument")
       ELSE LET r == Index_search(engine, Ix, Value_encode_to_vec(key.v), << >>)
            IN  response' = Answer("get", IF r.ok THEN "ok" ELSE Status_from(r.err))
    /\ UNCHANGED << indexVars, file, pos, opsVars, routerVars, partitionVars, taskVars, coordinationVars, is_leader, channel, sent >>

\* KeyValueService::create
Create(request) ==
    /\ CanWrite
    /\ IF ~request.some \/ ~request.v.key.some \/ ~request.v.value.some
       THEN Reject("create", "invalid_argument")
       ELSE LET document == Document(Value_encode_to_vec(request.v.key.v),
                                     Value_encode_to_vec(request.v.value.v))
            IN  Finish("create", Index_insert(engine, Ix, document, << >>),
                       Replication("Add", request.v))
    /\ UNCHANGED << engine, restarts, last, ref, inserted, opsVars, routerVars, partitionVars, taskVars, coordinationVars, is_leader, sent >>

\* KeyValueService::update
Update_rpc(request) ==
    /\ CanWrite
    /\ IF ~request.some \/ ~request.v.key.some \/ ~request.v.value.some
       THEN Reject("update", "invalid_argument")
       ELSE LET document == Document(Value_encode_to_vec(request.v.key.v),
                                     Value_encode_to_vec(request.v.value.v))
            IN  Finish("update",
                       Index_update(engine, Ix, document.id, document, << >>),
                       Replication("Update", request.v))
    /\ UNCHANGED << engine, restarts, last, ref, inserted, opsVars, routerVars, partitionVars, taskVars, coordinationVars, is_leader, sent >>

\* KeyValueService::delete
Delete_rpc(key) ==
    /\ CanWrite
    /\ IF ~key.some THEN Reject("delete", "invalid_argument")
       ELSE Finish("delete",
                   Index_delete(engine, Ix, Value_encode_to_vec(key.v), << >>),
                   Replication("Delete", KeyValue(key, None)))
    /\ UNCHANGED << engine, restarts, last, ref, inserted, opsVars, routerVars, partitionVars, taskVars, coordinationVars, is_leader, sent >>

\* the other nodes of the partition
Followers == {"f1", "f2"}

\* what get_follower_addresses may answer
FollowerAddresses ==
    { Err("Zookeeper"), Ok(<< >>), Ok(<< "f1" >>), Ok(<< "f1", "f2" >>) }

\* the request the replicator sends for a record
Rpc(to, message) ==
    [to |-> to,
     rpc |-> CASE message.action = "Add" -> "create"
               [] message.action = "Update" -> "update"
               [] message.action = "Delete" -> "delete",
     key_value |-> message.key_value]

\* a loop over the followers that ends at the first failed connection
Targets_until_failure(follower_addresses, connected) ==
    LET failed == { i \in 1..Len(follower_addresses) :
                      follower_addresses[i] \notin connected }
    IN  IF failed = {} THEN follower_addresses
        ELSE SubSeq(follower_addresses, 1,
                    (CHOOSE i \in failed : \A j \in failed : i <= j) - 1)

\* the loop over the followers: a follower no connection can be made to is
\* skipped, the others get the request, whose answer is only logged
Targets(follower_addresses, connected) ==
    SelectSeq(follower_addresses, LAMBDA f : f \in connected)

\* what a turn of the replicator did with the record it received
ReplicateOutcome(addresses) ==
    IF ~is_leader THEN "NotLeader"
    ELSE IF ~addresses.ok THEN "NoAddresses" ELSE "Ok"

\* a turn of the replicator that does not ask whether the node leads
ReplicateTo_unchecked(addresses, connected) ==
    /\ channel # << >>
    /\ channel' = Tail(channel)
    /\ LET message == Head(channel)
           targets == IF addresses.ok
                      THEN Targets(addresses.val, connected) ELSE << >>
       IN  sent' = sent \o [i \in 1..Len(targets) |-> Rpc(targets[i], message)]
    /\ last' = Call("replicate", Head(channel).key_value.key.v,
                    ReplicateOutcome(addresses))
    /\ UNCHANGED << engine, map, transaction_id, bloom_filter, tree_size,
                    ss_tables, cwd_files, restarts, ref, inserted, file, pos,
                    opsVars, routerVars, partitionVars, taskVars, coordinationVars, is_leader, response >>

\* one turn of the loop of start_replicator: a record is received, dropped
\* when the node is not the leader or the follower list cannot be read, and
\* otherwise sent to every follower a connection can be made to
ReplicateTo(addresses, connected) ==
    /\ channel # << >>
    /\ channel' = Tail(channel)
    /\ LET message == Head(channel)
           targets == IF is_leader /\ addresses.ok
                      THEN Targets(addresses.val, connected) ELSE << >>
       IN  sent' = sent \o [i \in 1..Len(targets) |-> Rpc(targets[i], message)]
    /\ last' = Call("replicate", Head(channel).key_value.key.v,
                    ReplicateOutcome(addresses))
    /\ UNCHANGED << engine, map, transaction_id, bloom_filter, tree_size,
                    ss_tables, cwd_files, restarts, ref, inserted, file, pos,
                    opsVars, routerVars, partitionVars, taskVars, coordinationVars, is_leader, response >>

\* the replicator task: whatever the registry answers and whichever
\* followers can be reached
Replicate ==
    \E addresses \in FollowerAddresses : \E connected \in SUBSET Followers :
        ReplicateTo(addresses, connected)

\* the leader latch is acquired or lost
LeaderChange ==
    /\ is_leader' = ~is_leader
    /\ UNCHANGED << indexVars, file, pos, opsVars, routerVars, partitionVars, taskVars, coordinationVars, channel, sent, response >>

\* the process ends and is started again on the same storage file: the
\* index is constructed from the file, the channel and its records are gone
ServerRestart ==
    /\ restarts < MaxRestarts
    /\ restarts' = restarts + 1
    /\ SetIx(new_index_engine(engine, file, cwd_files, tree_size, bloom_filter.size))
    /\ last' = Call("new", << >>, "Ok")
    /\ is_leader' = FALSE
    /\ channel' = << >>
    /\ response' = Answer("none", "ok")
    /\ UNCHANGED << engine, ref, inserted, opsVars, routerVars, partitionVars, taskVars, coordinationVars, sent >>

NextServer ==
    \/ \E key \in OptionalKeys : Get(key)
    \/ \E request \in KeyValueRequests : Create(request)
    \/ \E request \in KeyValueRequests : Update_rpc(request)
    \/ \E key \in OptionalKeys : Delete_rpc(key)
    \/ Replicate
    \/ LeaderChange
    \/ ServerRestart

SpecServer == InitServer /\ [][NextServer]_vars

(* ------------------------------------------------------------------ *)
(* The write handlers as the tasks of concurrent requests: a handler   *)
(* takes the index mutex, calls the index, sends the record and only   *)
(* then returns, which drops the guard                                  *)
(* ------------------------------------------------------------------ *)

\* writes the model lets a node apply
MaxApplied == 3

\* what create, update and delete are called with
WriteRequests ==
    { [rpc |-> rpc, arg |-> request] :
          rpc \in {"create", "update"}, request \in KeyValueRequests }
    \cup { [rpc |-> "delete", arg |-> key] : key \in OptionalKeys }

\* a handler up to the index call, on the index ix of strategy e: a request
\* with a field missing returns before the mutex is asked for
ServedBy(e, ix, rpc, arg) ==
    IF rpc = "delete"
    THEN IF ~arg.some THEN [ix |-> ix, res |-> "InvalidArgument"]
         ELSE Index_delete(e, ix, Value_encode_to_vec(arg.v), << >>)
    ELSE IF ~arg.some \/ ~arg.v.key.some \/ ~arg.v.value.some
         THEN [ix |-> ix, res |-> "InvalidArgument"]
         ELSE LET document == Document(Value_encode_to_vec(arg.v.key.v),
                                       Value_encode_to_vec(arg.v.value.v))
              IN  IF rpc = "create"
                  THEN Index_insert(e, ix, document, << >>)
                  ELSE Index_update(e, ix, document.id, document, << >>)

\* the handler of the node the other variables describe
Served(rpc, arg) == ServedBy(engine, Ix, rpc, arg)

\* the record a handler builds from its request
Record(rpc, arg) ==
    CASE rpc = "create" -> Replication("Add", arg.v)
      [] rpc = "update" -> Replication("Update", arg.v)
      [] rpc = "delete" -> Replication("Delete", KeyValue(arg, None))

\* a guard that is dropped as soon as the index call has returned
GuardAfterIndexCall_dropped(res) == FALSE

\* the MutexGuard of the index after the index call: an error returns from
\* the handler and drops it, otherwise it lives to the end of the handler
\* and is held while the record is sent
GuardAfterIndexCall(res) == res = "Ok"

\* a handler from the request to the return of the index call
Begin(c, rpc, arg) ==
    /\ pc[c] = "idle"
    /\ ~lock
    /\ transaction_id < MaxTransactionId
    /\ Len(file) < MaxServerRows
    /\ Len(applied) < MaxApplied
    /\ LET r == Served(rpc, arg)
       IN  /\ SetIx(r.ix)
           /\ lock' = GuardAfterIndexCall(r.res)
           /\ IF r.res = "Ok"
              THEN /\ pc' = [pc EXCEPT ![c] = rpc]
                   /\ pending' = [pending EXCEPT ![c] = Record(rpc, arg)]
                   /\ applied' = Append(applied, Record(rpc, arg))
                   /\ response' = response
              ELSE /\ response' = Answer(rpc, IF r.res = "InvalidArgument"
                                              THEN "invalid_argument"
                                              ELSE Status_from(r.res))
                   /\ UNCHANGED << pc, pending, applied >>
    /\ UNCHANGED << engine, restarts, last, ref, inserted, opsVars, is_leader,
                    channel, sent, coordinationVars, routerVars, partitionVars >>

\* a handler from send_replication to its return
Send(c) ==
    /\ pc[c] \in {"create", "update", "delete"}
    /\ Len(channel) < ChannelCapacity
    /\ Len(channel) < MaxChannel
    /\ channel' = Append(channel, pending[c])
    /\ lock' = FALSE
    /\ pc' = [pc EXCEPT ![c] = "idle"]
    /\ pending' = [pending EXCEPT ![c] = NoRecord]
    /\ response' = Answer(pc[c], "ok")
    /\ UNCHANGED << indexVars, file, pos, opsVars, is_leader, sent, applied,
                    coordinationVars, routerVars, partitionVars >>

InitReplication ==
    /\ engine = "BTree"
    /\ HoldsIx(new_index_engine("BTree", << >>, EmptyMap, 0, 0))
    /\ restarts = 0
    /\ last = Call("new", << >>, "Ok")
    /\ ref = [id \in Ids |-> NoValue]
    /\ inserted = {}
    /\ issued = << >>
    /\ dead = {}
    /\ InitServerIdle

NextReplication ==
    \/ \E c \in Clients : \E request \in WriteRequests :
           Begin(c, request.rpc, request.arg)
    \/ \E c \in Clients : Send(c)
    \/ Replicate
    \/ LeaderChange

SpecReplication == InitReplication /\ [][NextReplication]_vars

\* the replicator is a spawned task that loops on the channel: a record
\* that waits is received
SpecReplicationLive == SpecReplication /\ WF_vars(Replicate)

(* ------------------------------------------------------------------ *)
(* The same handlers step by step: a handler waits for the index mutex, *)
(* and the insert it calls first looks the id up and then stores the    *)
(* document                                                             *)
(* ------------------------------------------------------------------ *)

\* Mutex::lock().await returns when no guard lives
MutexGranted_always(held) == TRUE

MutexGranted(held) == ~held

\* the requests that reach the mutex: every field is set
CompleteRequests ==
    { w \in WriteRequests :
          IF w.rpc = "delete" THEN w.arg.some
          ELSE w.arg.some /\ w.arg.v.key.some /\ w.arg.v.value.some }

\* a handler up to the guard it gets from lock().await
Acquire(c, rpc, arg) ==
    /\ pc[c] = "idle"
    /\ MutexGranted(lock)
    /\ transaction_id < MaxTransactionId
    /\ Len(file) < MaxServerRows
    /\ Len(applied) < MaxApplied
    /\ lock' = TRUE
    /\ pc' = [pc EXCEPT ![c] = "locked"]
    /\ pending' = [pending EXCEPT ![c] = Record(rpc, arg)]
    /\ UNCHANGED << indexVars, file, pos, opsVars, is_leader, channel, sent, response,
                    applied, coordinationVars, routerVars, partitionVars >>

\* the handler returns: the guard is dropped
Return(c, rpc, status) ==
    /\ response' = Answer(rpc, status)
    /\ lock' = FALSE
    /\ pc' = [pc EXCEPT ![c] = "idle"]
    /\ pending' = [pending EXCEPT ![c] = NoRecord]

\* Index::insert up to its look-up of the id
Check(c) ==
    /\ pc[c] = "locked"
    /\ pending[c].action = "Add"
    /\ \E order \in CallOrders :
           IF Index_search(engine, Ix, Value_encode_to_vec(pending[c].key_value.key.v),
                           order).ok
           THEN Return(c, "create", Status_from("AlreadyExists"))
           ELSE /\ pc' = [pc EXCEPT ![c] = "checked"]
                /\ UNCHANGED << lock, pending, response >>
    /\ UNCHANGED << indexVars, file, pos, opsVars, is_leader, channel, sent, applied,
                    coordinationVars, routerVars, partitionVars >>

\* the rest of the index call of the handler of client c
Applied(c, order) ==
    LET key_value == pending[c].key_value
        id == Value_encode_to_vec(key_value.key.v)
    IN  CASE pending[c].action = "Add" ->
                 LET document == Document(id, Value_encode_to_vec(key_value.value.v))
                 IN  IF engine = "LSM" THEN LsmTree_insert(Ix, document, order)
                     ELSE [ix |-> MapIndex_store(Ix, document), res |-> "Ok"]
          [] pending[c].action = "Update" ->
                 Index_update(engine, Ix, id,
                              Document(id, Value_encode_to_vec(key_value.value.v)), order)
          [] pending[c].action = "Delete" -> Index_delete(engine, Ix, id, order)

\* the name of the RPC that builds a record of the action
RpcOf(action) ==
    CASE action = "Add" -> "create" [] action = "Update" -> "update"
      [] action = "Delete" -> "delete"

\* the index call returns: an error returns from the handler, otherwise
\* the record is ready to be sent
Apply(c) ==
    /\ \/ pc[c] = "checked"
       \/ pc[c] = "locked" /\ pending[c].action # "Add"
    /\ \E order \in CallOrders :
           LET r == Applied(c, order)
           IN  /\ SetIx(r.ix)
               /\ IF r.res = "Ok"
                  THEN /\ pc' = [pc EXCEPT ![c] = RpcOf(pending[c].action)]
                       /\ applied' = Append(applied, pending[c])
                       /\ UNCHANGED << lock, pending, response >>
                  ELSE /\ Return(c, RpcOf(pending[c].action), Status_from(r.res))
                       /\ UNCHANGED applied
    /\ UNCHANGED << engine, restarts, last, ref, inserted, opsVars, is_leader, channel, sent,
                    coordinationVars, routerVars, partitionVars >>

InitHandlers ==
    /\ engine \in {"BTree", "LSM"}
    /\ \E args \in LsmArguments :
           HoldsIx(new_index_engine(engine, << >>, EmptyMap, args[1], args[2]))
    /\ restarts = 0
    /\ last = Call("new", << >>, "Ok")
    /\ ref = [id \in Ids |-> NoValue]
    /\ inserted = {}
    /\ issued = << >>
    /\ dead = {}
    /\ InitServerIdle

NextHandlers ==
    \/ \E c \in Clients : \E request \in CompleteRequests :
           Acquire(c, request.rpc, request.arg)
    \/ \E c \in Clients : Check(c)
    \/ \E c \in Clients : Apply(c)
    \/ \E c \in Clients : Send(c)
    \/ Replicate

SpecHandlers == InitHandlers /\ [][NextHandlers]_vars

(* ------------------------------------------------------------------ *)
(* configmanager::ZooKeeperConfigManager of every node, and the paths   *)
(* of the coordination service they share. A children-watch is armed    *)
(* once, fires when a child of its path is created or deleted, and is   *)
(* armed again by its callback; writing the data of a child fires none. *)
(* ------------------------------------------------------------------ *)

Instance(id, address, leads) == [id |-> id, address |-> address, is_leader |-> leads]

\* the clients whose session lives
Living == { latch[i] : i \in 1..Len(latch) }

\* LeaderLatch::has_leadership: the oldest member of the latch holds it
has_leadership(n) == latch # << >> /\ Head(latch) = n

\* the events that a change of the children of the two paths, in the order
\* `fired`, adds to the queue of a client, and the watches it is left with
Notified(n, fired) == events[n] \o SelectSeq(fired, LAMBDA w : w \in watches[n])

Disarmed(n, fired) == watches[n] \ { fired[i] : i \in 1..Len(fired) }

\* ZooKeeperConfigManager::new on node n: the latch is joined, both watches
\* are armed, the instance is registered with what the latch says, which
\* fires the client's own registry watch, and the list is read
ZooKeeperConfigManager_new(n) ==
    /\ n \notin Living
    /\ latch' = Append(latch, n)
    /\ registry' = MapInsert(registry, n, Instance(n, n, latch = << >>))
    /\ instances' = [instances EXCEPT ![n] = registry']
    /\ events' = [m \in Nodes |->
                     IF m = n THEN << "services" >>
                     ELSE Notified(m, << "leader", "services" >>)]
    /\ watches' = [m \in Nodes |->
                      IF m = n THEN {"leader", "services"}
                      ELSE Disarmed(m, << "leader", "services" >>)]
    /\ UNCHANGED << indexVars, file, pos, opsVars, routerVars, partitionVars, is_leader, channel, sent,
                    response, taskVars >>

\* the session of node n ends: its latch member and its registry node are
\* ephemeral and go, in either order
SessionEnd(n) ==
    /\ n \in Living
    /\ latch' = SelectSeq(latch, LAMBDA m : m # n)
    /\ registry' = MapRemove(registry, n)
    /\ instances' = [instances EXCEPT ![n] = EmptyMap]
    /\ \E fired \in { << "leader", "services" >>, << "services", "leader" >> } :
           /\ events' = [m \in Nodes |-> IF m = n THEN << >> ELSE Notified(m, fired)]
           /\ watches' = [m \in Nodes |-> IF m = n THEN {} ELSE Disarmed(m, fired)]
    /\ UNCHANGED << indexVars, file, pos, opsVars, routerVars, partitionVars, is_leader, channel, sent,
                    response, taskVars >>

\* what a call to the coordination service answers
ZkAnswers == {"Ok", "Err"}

\* the queue of client n once the callback at its head has returned
\* without arming a watch, and once it has come to arm its watch again
Returned(n) == [events EXCEPT ![n] = Tail(events[n])]

ToArm(n, watch) == [events EXCEPT ![n] = << watch >> \o Tail(events[n])]

\* handle_leader_change on node n: when the registry path cannot be
\* ensured the callback returns; otherwise update_service writes the data
\* of the node's own registry entry, or fails and is logged, and the watch
\* is set again
handle_leader_change(n, ensured, updated) ==
    /\ registry' = IF ensured = "Ok" /\ updated = "Ok"
                   THEN MapInsert(registry, n, Instance(n, n, has_leadership(n)))
                   ELSE registry
    /\ events' = IF ensured = "Ok" THEN ToArm(n, "arm_leader") ELSE Returned(n)
    /\ UNCHANGED instances

\* handle_service_change on node n: when the children cannot be read the
\* callback returns; otherwise the list is cleared and read again, and the
\* watch is set again
handle_service_change(n, children) ==
    /\ instances' = IF children = "Ok" THEN [instances EXCEPT ![n] = registry]
                    ELSE instances
    /\ events' = IF children = "Ok" THEN ToArm(n, "arm_services") ELSE Returned(n)
    /\ UNCHANGED registry

\* the event thread of node n runs the callback of the next event up to
\* the call that sets the watch again, its calls answered as given
CallbackWith(n, first, second) ==
    /\ events[n] # << >>
    /\ Head(events[n]) \in {"leader", "services"}
    /\ IF Head(events[n]) = "leader"
       THEN handle_leader_change(n, first, second)
       ELSE handle_service_change(n, first)
    /\ UNCHANGED << latch, watches, indexVars, file, pos, opsVars, routerVars, partitionVars, is_leader,
                    channel, sent, response, taskVars >>

Callback(n) ==
    \E first \in ZkAnswers : \E second \in ZkAnswers : CallbackWith(n, first, second)

\* the end of a callback: get_children_w arms the watch of its path again
Rearm(n) ==
    /\ events[n] # << >>
    /\ Head(events[n]) \in {"arm_leader", "arm_services"}
    /\ watches' = [watches EXCEPT ![n] =
                      watches[n] \cup {IF Head(events[n]) = "arm_leader"
                                       THEN "leader" ELSE "services"}]
    /\ events' = Returned(n)
    /\ UNCHANGED << latch, registry, instances, indexVars, file, pos, opsVars, routerVars, partitionVars,
                    is_leader, channel, sent, response, taskVars >>

InitCoordination == InitReplication

NextCoordination ==
    \/ \E n \in Nodes : ZooKeeperConfigManager_new(n)
    \/ \E n \in Nodes : SessionEnd(n)
    \/ \E n \in Nodes : Callback(n)
    \/ \E n \in Nodes : Rearm(n)

SpecCoordination == InitCoordination /\ [][NextCoordination]_vars

\* the clients while the coordination service answers every call
NextCoordinationUp ==
    \/ \E n \in Nodes : ZooKeeperConfigManager_new(n)
    \/ \E n \in Nodes : SessionEnd(n)
    \/ \E n \in Nodes : CallbackWith(n, "Ok", "Ok")
    \/ \E n \in Nodes : Rearm(n)

SpecCoordinationUp == InitCoordination /\ [][NextCoordinationUp]_vars

(* ------------------------------------------------------------------ *)
(* The router: KeyValueServiceRouter over one address manager per       *)
(* partition. An address manager holds the instance list of its         *)
(* registry path; what became of a forwarded request is the backend's   *)
(* answer, passed through.                                              *)
(* ------------------------------------------------------------------ *)

\* the most partitions a router is started with
MaxPartitions == 3

\* the instance lists the address manager of partition p may hold; the
\* partition has two backends, and a pair stands for the host and port of
\* each
InstanceLists(p) ==
    LET x == << p, 1 >>
        y == << p, 2 >>
    IN  { << >>,
          << Instance(x, x, TRUE) >>,
          << Instance(x, x, FALSE), Instance(y, y, TRUE) >>,
          << Instance(x, x, FALSE), Instance(y, y, FALSE) >> }

\* an implementation of AddressManager: its list, and whether its queries
\* answer Ok or Err
AddressManagers(p) ==
    { [instances |-> l, answers |-> "Ok"] : l \in InstanceLists(p) }
        \cup { [instances |-> << >>, answers |-> "Err"] }

\* AddressManager::get_leader_address: the address of the first instance
\* that leads
get_leader_address_or_first(m) ==
    IF m.answers = "Err" THEN Err("error")
    ELSE IF m.instances = << >> THEN Err("Leader not found")
    ELSE LET leaders == SelectSeq(m.instances, LAMBDA i : i.is_leader)
         IN  Ok(Head(IF leaders # << >> THEN leaders ELSE m.instances).address)

get_leader_address(m) ==
    LET leaders == SelectSeq(m.instances, LAMBDA i : i.is_leader)
    IN  IF m.answers = "Err" THEN Err("error")
        ELSE IF leaders # << >> THEN Ok(Head(leaders).address)
        ELSE Err("Leader not found")

\* AddressManager::get_all_addresses: the address of every instance
get_all_addresses(m) ==
    IF m.answers = "Err" THEN Err("error")
    ELSE Ok([i \in 1..Len(m.instances) |-> m.instances[i].address])

\* calculate_hash: DefaultHasher (SipHash-1-3 with zero keys) over the
\* length of the vector as 8 little-endian bytes and then its bytes.
\* << 26, 1, 97 >> hashes to 14735203788530228961 and << 26, 1, 98 >> to
\* 1284819553823439212; usize is 64 bits wide, and the hash is kept
\* modulo 196608 = 2^16 * 3, a multiple of every number of partitions,
\* which leaves hash % len what it is
calculate_hash(key) ==
    CASE key = << 26, 1, 97 >> -> 106209
      [] key = << 26, 1, 98 >> -> 145772

\* hash % address_managers.len(), the index of the partition
Partition_first(hash, len) == 0

Partition(hash, len) == hash % len

\* get_random_address; random is what gen_range draws
get_random_address(managers, hash, random) ==
    LET addresses == get_all_addresses(managers[Partition(hash, Len(managers)) + 1])
    IN  IF ~addresses.ok THEN Err("internal")
        ELSE IF addresses.val = << >> THEN Err("internal")
        ELSE Ok(addresses.val[(random % Len(addresses.val)) + 1])

get_partitioned_leader_address(managers, hash) ==
    LET address == get_leader_address(managers[Partition(hash, Len(managers)) + 1])
    IN  IF ~address.ok THEN Err("internal") ELSE address

\* what a backend may answer to a forwarded request
UpstreamStatuses == {"ok", "not_found", "internal"}

\* the end of every handler of the router: the address is an error, or the
\* connection fails, or the request goes to the address and the answer of
\* the backend comes back
Forward(rpc, address, connected, upstream) ==
    /\ IF ~address.ok
       THEN /\ forwarded' = None
            /\ response' = Answer(rpc, address.err)
       ELSE IF ~connected
       THEN /\ forwarded' = None
            /\ response' = Answer(rpc, "internal")
       ELSE /\ forwarded' = Some([to |-> address.val, rpc |-> rpc])
            /\ response' = Answer(rpc, upstream)
    /\ UNCHANGED << indexVars, file, pos, opsVars, is_leader, channel, sent, taskVars,
                    coordinationVars, address_managers, members, partitionVars >>

\* KeyValueServiceRouter::get
KeyValueServiceRouter_get(key, random, connected, upstream) ==
    Forward("get",
            IF ~key.some THEN Err("invalid_argument")
            ELSE get_random_address(address_managers,
                                    calculate_hash(Value_encode_to_vec(key.v)), random),
            connected, upstream)

\* KeyValueServiceRouter::create and ::update, which differ in the RPC they
\* forward
KeyValueServiceRouter_write(rpc, request, connected, upstream) ==
    Forward(rpc,
            IF ~request.some THEN Err("invalid_argument")
            ELSE IF ~request.v.key.some THEN Err("invalid_argument")
            ELSE get_partitioned_leader_address(
                     address_managers, calculate_hash(Value_encode_to_vec(request.v.key.v))),
            connected, upstream)

\* KeyValueServiceRouter::delete
KeyValueServiceRouter_delete(key, connected, upstream) ==
    Forward("delete",
            IF ~key.some THEN Err("invalid_argument")
            ELSE get_partitioned_leader_address(
                     address_managers, calculate_hash(Value_encode_to_vec(key.v))),
            connected, upstream)

\* the watch callback of the address manager of partition p rebuilds its list
AddressManagerChange(p, m) ==
    /\ p \in 1..Len(address_managers)
    /\ address_managers' = [address_managers EXCEPT ![p] = m]
    /\ UNCHANGED << indexVars, file, pos, opsVars, is_leader, channel, sent, response,
                    taskVars, coordinationVars, forwarded, members,
                    partitionVars >>

\* main: one address manager for each registry path, and there is always
\* at least one
InitRouter ==
    /\ engine = "BTree"
    /\ HoldsIx(new_index_engine("BTree", << >>, EmptyMap, 0, 0))
    /\ restarts = 0
    /\ last = Call("new", << >>, "Ok")
    /\ ref = [id \in Ids |-> NoValue]
    /\ inserted = {}
    /\ issued = << >>
    /\ dead = {}
    /\ InitNodeIdle
    /\ \E n \in 1..MaxPartitions :
           address_managers \in [1..n -> UNION { AddressManagers(p) : p \in 1..n }]
              /\ \A p \in 1..n : address_managers[p] \in AddressManagers(p)
    /\ forwarded = None
    /\ members = [x \in BloomElements |-> 0]

NextRouter ==
    \/ \E key \in OptionalKeys : \E random \in 0..1 : \E connected \in BOOLEAN :
       \E upstream \in UpstreamStatuses :
           KeyValueServiceRouter_get(key, random, connected, upstream)
    \/ \E rpc \in {"create", "update"} : \E request \in KeyValueRequests :
       \E connected \in BOOLEAN : \E upstream \in UpstreamStatuses :
           KeyValueServiceRouter_write(rpc, request, connected, upstream)
    \/ \E key \in OptionalKeys : \E connected \in BOOLEAN : \E upstream \in UpstreamStatuses :
           KeyValueServiceRouter_delete(key, connected, upstream)
    \/ \E p \in 1..MaxPartitions : \E m \in AddressManagers(p) : AddressManagerChange(p, m)

SpecRouter == InitRouter /\ [][NextRouter]_vars

(* ------------------------------------------------------------------ *)
(* bloomfilter::BloomFilter on its own: a caller that inserts, checks   *)
(* and removes elements, and removes only what it has inserted and not  *)
(* yet removed.                                                         *)
(* ------------------------------------------------------------------ *)

\* the most inserts of one element that are not yet removed
MaxInserts == 2

\* the sizes of the filter: at 1 every position coincides; at 4 "a" and
\* "b" have the same two positions; at 8 "a" and "c" share one position
\* and "b" shares none
BloomSizes == {1, 4, 8}

BloomInsert(x) ==
    /\ members[x] < MaxInserts
    /\ bloom_filter' = BloomFilter_insert(bloom_filter, x)
    /\ members' = [members EXCEPT ![x] = @ + 1]
    /\ last' = Call("insert", x, "Ok")
    /\ UNCHANGED << engine, map, transaction_id, tree_size, ss_tables, cwd_files, restarts,
                    ref, inserted, file, pos, opsVars, is_leader, channel, sent, response,
                    taskVars, coordinationVars, address_managers, forwarded,
                    partitionVars >>

BloomRemove(x) ==
    /\ members[x] > 0
    /\ bloom_filter' = BloomFilter_remove(bloom_filter, x)
    /\ members' = [members EXCEPT ![x] = @ - 1]
    /\ last' = Call("remove", x, "Ok")
    /\ UNCHANGED << engine, map, transaction_id, tree_size, ss_tables, cwd_files, restarts,
                    ref, inserted, file, pos, opsVars, is_leader, channel, sent, response,
                    taskVars, coordinationVars, address_managers, forwarded,
                    partitionVars >>

BloomCheck(x) ==
    /\ last' = Call("check", x, IF BloomFilter_check(bloom_filter, x) THEN "true" ELSE "false")
    /\ UNCHANGED << engine, map, transaction_id, bloom_filter, tree_size, ss_tables, cwd_files,
                    restarts, ref, inserted, file, pos, opsVars, serverVars >>

InitBloom ==
    /\ engine = "BTree"
    /\ file = << >>
    /\ pos = 0
    /\ map = EmptyMap
    /\ transaction_id = 0
    /\ tree_size = 0
    /\ ss_tables = << >>
    /\ cwd_files = EmptyMap
    /\ \E size \in BloomSizes : bloom_filter = BloomFilter_new(size)
    /\ restarts = 0
    /\ last = Call("new", << >>, "Ok")
    /\ ref = [id \in Ids |-> NoValue]
    /\ inserted = {}
    /\ issued = << >>
    /\ dead = {}
    /\ InitServerIdle

NextBloom ==
    \/ \E x \in BloomElements : BloomInsert(x)
    \/ \E x \in BloomElements : BloomRemove(x)
    \/ \E x \in BloomElements : BloomCheck(x)

SpecBloom == InitBloom /\ [][NextBloom]_vars

(* ------------------------------------------------------------------ *)
(* A partition: the services of several nodes, each with its index, its *)
(* channel and its replicator, over the coordination clients above. A   *)
(* replicator receives a record, reads the follower list and sends the  *)
(* request to one follower after the other, awaiting each answer.       *)
(* ------------------------------------------------------------------ *)

\* client writes the model lets the partition accept
MaxAccepted == 2

\* the nodes that run a service in the partition
Members == {"n1", "n2"}

\* the writes clients of the partition make: one key, one value
PartitionRequests ==
    { w \in CompleteRequests :
          IF w.rpc = "delete" THEN w.arg.v = << 97 >>
          ELSE w.arg.v.key.v = << 97 >> /\ w.arg.v.value.v = << 120 >> }

\* create, update or delete served by node n: the index call, and after a
\* successful one the record is put on the node's channel
HandledBy(n, rpc, arg) ==
    LET r == ServedBy(engine, replicas[n], rpc, arg)
    IN  /\ replicas' = [replicas EXCEPT ![n] = r.ix]
        /\ channels' = IF r.res = "Ok"
                       THEN [channels EXCEPT ![n] = Append(@, Record(rpc, arg))]
                       ELSE channels
        /\ mutations' = IF r.res = "Ok" THEN [mutations EXCEPT ![n] = @ + 1]
                        ELSE mutations
        /\ response' = Answer(rpc, IF r.res = "Ok" THEN "ok" ELSE Status_from(r.res))
        /\ Len(channels'[n]) <= MaxChannel

\* the request the replicator makes of a record
RequestOf(message) ==
    IF message.action = "Delete" THEN message.key_value.key
    ELSE Some(message.key_value)

\* the order in which the children of the registry path are listed
ListingOrder == << "n1", "n2", "n3" >>

\* get_follower_addresses on node n, in the order of the list
FollowerList(n) ==
    LET listed == SelectSeq(ListingOrder,
                            LAMBDA id : IF id \in DOMAIN instances[n]
                                        THEN ~instances[n][id].is_leader ELSE FALSE)
    IN  [i \in 1..Len(listed) |-> instances[n][listed[i]].address]

\* a client calls create, update or delete on node n
ClientWrite(n, rpc, arg) ==
    /\ n \in Living
    /\ accepted < MaxAccepted
    /\ HandledBy(n, rpc, arg)
    /\ accepted' = IF response'.status = "ok" THEN accepted + 1 ELSE accepted
    /\ UNCHANGED << indexVars, file, pos, opsVars, is_leader, channel, sent, taskVars,
                    coordinationVars, routerVars, outbox >>

\* the head of the loop of start_replicator on node n: a record is
\* received and dropped when the node does not hold the latch; otherwise
\* the follower addresses are read from the node's list
ReplicatorReceive(n) ==
    /\ n \in Living
    /\ outbox[n] = << >>
    /\ channels[n] # << >>
    /\ channels' = [channels EXCEPT ![n] = Tail(@)]
    /\ outbox' = [outbox EXCEPT ![n] =
                     IF has_leadership(n)
                     THEN [i \in 1..Len(FollowerList(n)) |->
                              [to |-> FollowerList(n)[i], message |-> Head(channels[n])]]
                     ELSE << >>]
    /\ UNCHANGED << indexVars, file, pos, opsVars, is_leader, channel, sent, response,
                    taskVars, coordinationVars, routerVars, replicas, accepted,
                    mutations >>

\* the body of the loop over the follower addresses: an address no service
\* listens on is skipped, the others serve the request, whose answer is
\* only logged
ReplicatorSend(n) ==
    /\ n \in Living
    /\ outbox[n] # << >>
    /\ \A m \in Nodes : mutations[m] <= MaxAccepted
    /\ outbox' = [outbox EXCEPT ![n] = Tail(@)]
    /\ LET next == Head(outbox[n])
       IN  IF next.to \in Living
           THEN HandledBy(next.to, RpcOf(next.message.action), RequestOf(next.message))
           ELSE UNCHANGED << replicas, channels, mutations, response >>
    /\ UNCHANGED << indexVars, file, pos, opsVars, is_leader, channel, sent, taskVars,
                    coordinationVars, routerVars, accepted >>

\* the services of the partition start on empty files, HashMap or BTree
InitPartition ==
    /\ engine \in MapEngines
    /\ HoldsIx(new_index_engine(engine, << >>, EmptyMap, 0, 0))
    /\ restarts = 0
    /\ last = Call("new", << >>, "Ok")
    /\ ref = [id \in Ids |-> NoValue]
    /\ inserted = {}
    /\ issued = << >>
    /\ dead = {}
    /\ InitServerIdle

\* the members join and leave before the first write is accepted; their
\* watch callbacks, the client writes and the replicators run in any order
NextPartition ==
    \/ \E n \in Members : accepted = 0 /\ ZooKeeperConfigManager_new(n)
    \/ \E n \in Members : accepted = 0 /\ SessionEnd(n)
    \/ \E n \in Members : CallbackWith(n, "Ok", "Ok")
    \/ \E n \in Members : Rearm(n)
    \/ \E n \in Members : \E w \in PartitionRequests : ClientWrite(n, w.rpc, w.arg)
    \/ \E n \in Members : ReplicatorReceive(n)
    \/ \E n \in Members : ReplicatorSend(n)

SpecPartition == InitPartition /\ [][NextPartition]_vars

(* ------------------------------------------------------------------ *)
(* Properties of the index                                             *)
(* ------------------------------------------------------------------ *)

\* what search(id) answers when the index agrees with the calls so far
Expected(id) ==
    IF ref[id] = NoValue THEN Err("NotFound") ELSE Ok(Document(id, ref[id]))

\* C1: an index constructed from the backing file alone answers search(id)
\* with the value of the last successful insert or update of every live id
\* and with NotFound for every id whose last successful call was a delete.
C1_RecoveredIndexAnswersFromFile ==
    (last.op = "new" /\ restarts > 0) =>
        \A id \in Ids : \A order \in CallOrders :
            Index_search(engine, Ix, id, order) = Expected(id)

\* C3: a HashMap or BTree index behaves like a key-to-value map: a call
\* changes what search answers exactly as the same call on a map would (a
\* successful insert or update of id makes search(id) return the document
\* written, a successful delete makes it fail with NotFound, and no call
\* changes the answer for another id or when it fails).
C3_MapIndexRefinesMap ==
    [][(engine \in MapEngines /\ last'.op # "new") =>
          \A id \in Ids :
              IF last'.id = id /\ last'.res = "Ok"
                 /\ last'.op \in {"insert", "update", "delete"}
              THEN MapIndex_search(Ix', id) = Expected(id)'
              ELSE MapIndex_search(Ix', id) = MapIndex_search(Ix, id)]_vars

\* C4: in an LSM index, whatever was flushed, search(id) returns the value
\* last written for every live id and NotFound for every other id.
C4_LsmSearchMatchesLiveSet ==
    engine = "LSM" =>
        \A id \in Ids : \A order \in CallOrders :
            LsmTree_search(Ix, id, order) = Expected(id)

\* C5: HashMap insert of an id that is present fails with AlreadyExists and
\* changes neither the map nor the backing file.
C5_HashMapInsertRejectsKnownId ==
    engine = "HashMap" =>
        \A document \in Documents :
            document.id \in DOMAIN map =>
                LET r == HashMapIndex_insert(Ix, document)
                IN  r.res = "AlreadyExists" /\ r.ix = Ix

\* C6: BTree and LSM insert of an id that is live fails with AlreadyExists,
\* appends nothing and leaves map, Bloom filter and transaction id unchanged.
C6_InsertOfLiveIdRejected ==
    engine \in {"BTree", "LSM"} =>
        \A document \in Documents : \A order \in CallOrders :
            ref[document.id] # NoValue =>
                LET r == Index_insert(engine, Ix, document, order)
                IN  r.res = "AlreadyExists" /\ r.ix = Ix

RecoveredIds ==
    DOMAIN map \cup UNION { DOMAIN ss_tables[i] : i \in 1..Len(ss_tables) }

\* C13: after bootstrap the transaction id equals the number of live tuples
\* recovered from the backing file; for LSM the entries flushed to SS-table
\* files during bootstrap count as those left in the memtable do.
C13_BootstrapTransactionIdCountsRecovered ==
    (last.op = "new" /\ restarts > 0) =>
        transaction_id = Cardinality(RecoveredIds)

\* the ids a step stamped into headers: xmin of the rows it appended and
\* xmax of the rows it overwrote
Stamped ==
    { file'[i].header.xmin : i \in (Len(file) + 1)..Len(file') }
    \cup { file'[i].header.xmax :
             i \in { j \in 1..Len(file) :
                       file'[j].header.xmax # file[j].header.xmax } }

\* C14: within one index instance every successful insert, update or delete
\* stamps headers with an id not used by an earlier mutation and advances
\* the transaction id past it (the first mutation of an empty index uses
\* 0), and a failed operation leaves the transaction id as it was.
C14_TransactionIdStrictlyIncreasing ==
    [][last'.op \in {"insert", "update", "delete"} =>
          IF last'.res = "Ok"
          THEN /\ transaction_id' > transaction_id
               /\ \A t \in Stamped : transaction_id <= t /\ t < transaction_id'
               /\ (restarts = 0 /\ Len(file) = 0) => Stamped = {0}
          ELSE transaction_id' = transaction_id]_vars

(* ------------------------------------------------------------------ *)
(* Properties of the operations layer                                  *)
(* ------------------------------------------------------------------ *)

\* C8: in every state of the backing file every stored tuple has
\* cmax = MAX exactly when it has xmax = MAX (a tombstoned or superseded
\* tuple carries the deleting transaction id in both fields).
C8_CmaxEqualsMaxIffXmaxDoes ==
    \A i \in 1..Len(file) :
        (file[i].header.cmax = NONE_SENTINEL) <=> (file[i].header.xmax = NONE_SENTINEL)

\* the k-th range returned has been handed to a successful
\* update_with_offset or delete_with_offset
Touched(k) == \E j \in dead : issued[j].os = issued[k].os

\* C9: read_with_offset of the range insert(payload, txid) returned gives a
\* tuple with that payload, xmin = cmin = txid and xmax = cmax = MAX,
\* whatever inserts, updates and deletes of other ranges happened since.
C9_ReturnedRangeReadsBack ==
    \A k \in 1..Len(issued) :
        ~Touched(k) =>
            LET r == DbOperationsImpl_read_with_offset(Fh, issued[k].os)
            IN  /\ r.ok
                /\ r.val.data = issued[k].data
                /\ r.val.header.xmin = issued[k].txid
                /\ r.val.header.cmin = issued[k].txid
                /\ r.val.header.xmax = NONE_SENTINEL
                /\ r.val.header.cmax = NONE_SENTINEL

\* C10: read_all returns one tuple per tuple appended, in append order, and
\* a tuple has xmax = MAX exactly when its range was handed to no successful
\* delete_with_offset or update_with_offset.
C10_ReadAllListsEveryAppend ==
    LET rows == DbOperationsImpl_read_all(Fh)
    IN  /\ Len(rows) = Len(issued)
        /\ \A k \in 1..Len(issued) :
               /\ rows[k].data = issued[k].data
               /\ (rows[k].header.xmax = NONE_SENTINEL) <=> ~Touched(k)

\* C11: every append returns the length the backing file had right before
\* the write, for a handler opened on a file that holds tuples as for a
\* fresh file: the k-th range returned starts where the k-th tuple starts.
C11_AppendReturnsLengthBeforeWrite ==
    \A k \in 1..Len(issued) : issued[k].os.offset = OffsetOf(file, k)

\* the rows `after` are the rows `before` but for the xmax and cmax of row t
OverwriteFrame(before, after, t) ==
    /\ Len(after) = Len(before)
    /\ FileLen(after) = FileLen(before)
    /\ \A i \in 1..Len(before) :
           IF i = t
           THEN after[i] = [before[i] EXCEPT !.header.xmax = after[i].header.xmax,
                                             !.header.cmax = after[i].header.cmax]
           ELSE after[i] = before[i]

\* C12: the in-place header overwrite of delete_with_offset and of the first
\* step of update_with_offset changes only xmax/cmax of the tuple at the
\* offset: its tuple_length and payload, the length of the file before the
\* append and every other tuple are as before.
C12_OverwriteChangesOnlyXmaxCmax ==
    [][/\ \A k \in 1..Len(issued) : \A txid \in 0..MaxTxid :
              (OpsDelete(k, txid) /\ last'.res = "Ok") =>
                  OverwriteFrame(file, file', RowAt(file, issued[k].os.offset))
       /\ \A k \in 1..Len(issued) : \A data \in Payloads : \A txid \in 0..MaxTxid :
              (OpsUpdate(k, data, txid) /\ last'.res = "Ok") =>
                  /\ Len(file') = Len(file) + 1
                  /\ OverwriteFrame(file, SubSeq(file', 1, Len(file)),
                                    RowAt(file, issued[k].os.offset))]_vars

\* C12 witness: an update_with_offset has overwritten the header of one
\* tuple of a file that holds others and appended the new version.
C12_Witness ==
    /\ last.op = "ops_update"
    /\ last.res = "Ok"
    /\ Len(file) = MaxRows
    /\ \E i \in 1..Len(file) : file[i].header.xmax # NONE_SENTINEL
    /\ \E i \in 1..Len(file) : file[i].header.xmax = NONE_SENTINEL

(* ------------------------------------------------------------------ *)
(* Properties of the Key-Value Service                                 *)
(* ------------------------------------------------------------------ *)

\* a complete Create, Update or Delete request is handled while the
\* coordination client says the node is not the leader
NonLeaderWrite ==
    /\ ~is_leader
    /\ \/ \E k \in RequestKeys : \E v \in RequestValues :
              \/ Create(Some(KeyValue(Some(k), Some(v))))
              \/ Update_rpc(Some(KeyValue(Some(k), Some(v))))
       \/ \E k \in RequestKeys : Delete_rpc(Some(k))

\* C2: a Create, Update or Delete request handled by a node that is not the
\* leader is answered with status unavailable, and the node's index and its
\* replication channel are left as they were.
C2_NonLeaderWriteIsRejected ==
    [][NonLeaderWrite =>
          /\ response'.status = "unavailable"
          /\ Ix' = Ix
          /\ channel' = channel]_vars

\* C15: a create, update or delete that answers ok sends exactly one record
\* to the channel, with the action of the RPC (Add, Update, Delete with no
\* value) and the key and value of the request; a write that answers with
\* an error status, and a get, send none.
C15_OneRecordPerSuccessfulWrite ==
    [][/\ \A request \in KeyValueRequests :
              Create(request) =>
                  channel' = IF response'.status = "ok"
                             THEN Append(channel, [action |-> "Add",
                                                   key_value |-> request.v])
                             ELSE channel
       /\ \A request \in KeyValueRequests :
              Update_rpc(request) =>
                  channel' = IF response'.status = "ok"
                             THEN Append(channel, [action |-> "Update",
                                                   key_value |-> request.v])
                             ELSE channel
       /\ \A key \in OptionalKeys :
              Delete_rpc(key) =>
                  channel' = IF response'.status = "ok"
                             THEN Append(channel,
                                         [action |-> "Delete",
                                          key_value |-> [key |-> key, value |-> None]])
                             ELSE channel
       /\ \A key \in OptionalKeys : Get(key) => channel' = channel]_vars

\* C15 witness: a delete has answered ok after a create, and its record
\* waits behind the create's while a later write has failed
C15_Witness ==
    /\ Len(channel) = 2
    /\ channel[1].action = "Add"
    /\ channel[2] = [action |-> "Delete",
                     key_value |-> [key |-> Some(<< 97 >>), value |-> None]]
    /\ response = Answer("delete", "ok")

\* the status the service answers with for what the index returned
StatusOf(res) ==
    IF res = "Ok" THEN "ok"
    ELSE IF res = "NotFound" THEN "not_found"
    ELSE IF res = "AlreadyExists" THEN "already_exists"
    ELSE "internal"

\* a create or update request that lacks key_value, key or value
Incomplete(request) ==
    ~request.some \/ ~request.v.key.some \/ ~request.v.value.some

\* C16: the service answers not_found when the index returns NotFound,
\* already_exists when it returns AlreadyExists and internal for any other
\* index error; a request that lacks key_value, key or value is answered
\* invalid_argument and leaves the index as it was.
C16_StatusOfIndexErrors ==
    [][/\ \A key \in OptionalKeys :
              Get(key) =>
                  IF ~key.some THEN response'.status = "invalid_argument" /\ Ix' = Ix
                  ELSE LET r == Index_search(engine, Ix, << 26, Len(key.v) >> \o key.v, << >>)
                       IN  response'.status = StatusOf(IF r.ok THEN "Ok" ELSE r.err)
       /\ \A request \in KeyValueRequests :
              Create(request) =>
                  IF Incomplete(request)
                  THEN response'.status = "invalid_argument" /\ Ix' = Ix
                  ELSE LET id == << 26, Len(request.v.key.v) >> \o request.v.key.v
                           value == << 26, Len(request.v.value.v) >> \o request.v.value.v
                       IN  response'.status =
                               StatusOf(Index_insert(engine, Ix, Document(id, value), << >>).res)
       /\ \A request \in KeyValueRequests :
              Update_rpc(request) =>
                  IF Incomplete(request)
                  THEN response'.status = "invalid_argument" /\ Ix' = Ix
                  ELSE LET id == << 26, Len(request.v.key.v) >> \o request.v.key.v
                           value == << 26, Len(request.v.value.v) >> \o request.v.value.v
                       IN  response'.status =
                               StatusOf(Index_update(engine, Ix, id, Document(id, value), << >>).res)
       /\ \A key \in OptionalKeys :
              Delete_rpc(key) =>
                  IF ~key.some THEN response'.status = "invalid_argument" /\ Ix' = Ix
                  ELSE LET id == << 26, Len(key.v) >> \o key.v
                       IN  response'.status = StatusOf(Index_delete(engine, Ix, id, << >>).res)]_vars

\* C16 witness: a get was answered internal, the index having failed to
\* read the tuple, on a node whose index holds entries
C16_Witness ==
    /\ response = Answer("get", "internal")
    /\ DOMAIN map # {}

\* C17: the replicator asks for leadership for every record it receives: a
\* record received while the node is not the leader leaves the channel and
\* causes no RPC, and the RPCs of a turn are all for the record received
\* in that turn, so a record discarded is not replicated later.
C17_ReplicatorRechecksLeadership ==
    [][/\ sent' # sent => is_leader
       /\ \A addresses \in FollowerAddresses : \A connected \in SUBSET Followers :
              ReplicateTo(addresses, connected) =>
                  /\ channel' = Tail(channel)
                  /\ ~is_leader => sent' = sent
                  /\ \A i \in (Len(sent) + 1)..Len(sent') :
                         /\ sent'[i].key_value = Head(channel).key_value
                         /\ sent'[i].rpc = CASE Head(channel).action = "Add" -> "create"
                                             [] Head(channel).action = "Update" -> "update"
                                             [] Head(channel).action = "Delete" -> "delete"]_vars

\* C17 witness: a record was received and discarded by a node that does not
\* lead, after an earlier record had been sent to both followers, and a
\* later record waits
C17_Witness ==
    /\ last = Call("replicate", << 97 >>, "NotLeader")
    /\ ~is_leader
    /\ Len(sent) = 2
    /\ \A i \in 1..Len(sent) : sent[i].rpc = "create"
    /\ channel # << >>

RECURSIVE IsSubsequence(_, _)
\* s can be had from t by leaving elements out
IsSubsequence(s, t) ==
    IF s = << >> THEN TRUE
    ELSE IF t = << >> THEN FALSE
    ELSE IF Head(s) = Head(t) THEN IsSubsequence(Tail(s), Tail(t))
    ELSE IsSubsequence(s, Tail(t))

\* the requests follower f has been sent, in the order they were sent
ReceivedBy(f) == SelectSeq(sent, LAMBDA m : m.to = f)

\* C18: every follower is sent the replication RPCs of a leader in the
\* order in which the leader applied the writes to its index, also when
\* the writes are requests of concurrent clients: what a follower was sent
\* is the sequence of the writes applied with some of them left out.
C18_FollowerReceivesInApplyOrder ==
    \A f \in Followers :
        IsSubsequence([i \in 1..Len(ReceivedBy(f)) |->
                           [rpc |-> ReceivedBy(f)[i].rpc,
                            key_value |-> ReceivedBy(f)[i].key_value]],
                      [i \in 1..Len(applied) |->
                           [rpc |-> CASE applied[i].action = "Add" -> "create"
                                      [] applied[i].action = "Update" -> "update"
                                      [] applied[i].action = "Delete" -> "delete",
                            key_value |-> applied[i].key_value]])

\* C18 witness: a follower was sent two different writes of the leader
\* while the handler of a third request holds the index
C18_Witness ==
    /\ \E f \in Followers :
           /\ Len(ReceivedBy(f)) = 2
           /\ ReceivedBy(f)[1].rpc = "create"
           /\ ReceivedBy(f)[2].rpc = "delete"
    /\ \E c \in Clients : pc[c] # "idle"
    /\ Len(applied) = 3

\* records sent to the channel so far, and records the replicator received
Enqueued == Len(applied) - Cardinality({ c \in Clients : pc[c] # "idle" })

Dequeued == Enqueued - Len(channel)

\* C19: a follower that cannot be connected to does not keep the record
\* from the other followers of the list fetched for it, and every record
\* sent to the channel is received by the replicator in the end.
C19_FailuresDoNotStopReplicator ==
    /\ [][\A addresses \in FollowerAddresses : \A connected \in SUBSET Followers :
              (ReplicateTo(addresses, connected) /\ is_leader /\ addresses.ok) =>
                  \A k \in 1..Len(addresses.val) :
                      addresses.val[k] \in connected =>
                          \E i \in (Len(sent) + 1)..Len(sent') :
                              /\ sent'[i].to = addresses.val[k]
                              /\ sent'[i].key_value = Head(channel).key_value]_vars
    /\ \A n \in 1..MaxApplied : (Enqueued >= n) ~> (Dequeued >= n)

\* C19 witness: the last record was sent to f2 alone, f1 being in the list
\* and out of reach, after an earlier record had been sent to f1
C19_Witness ==
    /\ Len(sent) = 2
    /\ sent[1].to = "f1"
    /\ sent[2].to = "f2"
    /\ sent[1].key_value.key # sent[2].key_value.key
    /\ Dequeued = 2

(* ------------------------------------------------------------------ *)
(* Properties of the coordination client                               *)
(* ------------------------------------------------------------------ *)

\* membership and leadership have settled: no client has a callback to run
Settled == \A n \in Living : events[n] = << >>

\* the instances the list of client n marks as leader
ListedLeaders(n) == { id \in DOMAIN instances[n] : instances[n][id].is_leader }

\* C20: when membership and leadership changes have stopped and every
\* pending watch callback has run, the instance list of every living client
\* holds exactly one instance with is_leader = true, the holder of the
\* leader latch.
C20_SettledListHasTheLatchHolderAsLeader ==
    Settled =>
        \A n \in Living :
            /\ Cardinality(ListedLeaders(n)) = 1
            /\ \A id \in ListedLeaders(n) : has_leadership(id)

\* the watches a living client holds armed on the two paths
BothArmed == \A n \in Living : watches[n] = {"leader", "services"}

\* C21: after membership changes, two in quick succession included, the
\* instance lists of all living clients come to equal the set of instances
\* registered: when every callback has run and every client holds its
\* watches, each list names exactly the registered instances.
C21_ListsConvergeOnRegistry ==
    (Settled /\ BothArmed) =>
        \A n \in Living : DOMAIN instances[n] = DOMAIN registry

\* C22: every fire of the registry watch and of the leader-election watch
\* arms that watch again, also when a call inside the callback fails: a
\* living client holds each of its two watches armed, or has the event of
\* that watch or the arming of it still to run.
C22_EveryFireRearms ==
    \A n \in Living :
        /\ "leader" \in watches[n]
              \/ \E i \in 1..Len(events[n]) : events[n][i] \in {"leader", "arm_leader"}
        /\ "services" \in watches[n]
              \/ \E i \in 1..Len(events[n]) : events[n][i] \in {"services", "arm_services"}

\* nothing but successful inserts has written to the file of a process
\* that has not been started again: every row is as it was appended, one
\* for each id inserted
OnlyInserts ==
    /\ restarts = 0
    /\ Len(file) = Cardinality(inserted)
    /\ \A i \in 1..Len(file) : file[i].header.xmax = NONE_SENTINEL

\* C27: the in-memory map of the LSM index always holds fewer than
\* tree_size entries; after m successful inserts of distinct ids into an
\* empty index the directory holds the m \div tree_size files ss_table_0
\* onwards, each of tree_size entries, and the map the other
\* m % tree_size entries
C27_FlushAtTreeSize ==
    engine = "LSM" =>
        /\ Cardinality(DOMAIN map) < tree_size
        /\ OnlyInserts =>
              /\ Len(ss_tables) = Cardinality(inserted) \div tree_size
              /\ Cardinality(DOMAIN map) = Cardinality(inserted) % tree_size
              /\ \A k \in 1..Len(ss_tables) : Cardinality(DOMAIN ss_tables[k]) = tree_size

\* two inserts filled the map of a tree that flushes at two entries
C27_Witness ==
    /\ engine = "LSM"
    /\ tree_size = 2
    /\ OnlyInserts
    /\ Cardinality(inserted) = 2
    /\ Len(ss_tables) = 1
    /\ map = EmptyMap
    /\ last.op = "insert"

\* the rows of the file that hold a document with the id
RowsOf(id) == { i \in 1..Len(file) : DeserializeDocument(file[i].data).val.id = id }

\* C28: with the scan strategy, for an id inserted once (one row before the
\* call), search fails with NotFound right after a successful delete of the
\* id and returns the new document right after a successful update
C28_NoIndexSearchSeesDeleteAndUpdate ==
    engine = "NoIndex" =>
        \A id \in Ids :
            /\ (last = Call("delete", id, "Ok") /\ Cardinality(RowsOf(id)) = 1)
                   => NoIndex_search(Ix, id) = Err("NotFound")
            /\ (last = Call("update", id, "Ok") /\ Cardinality(RowsOf(id)) = 2)
                   => NoIndex_search(Ix, id) = Ok(Document(id, ref[id]))

\* C29: whatever the strategy, a delete of an id whose last successful
\* insert, update or delete was a delete fails with NotFound and leaves
\* every row of the file as it is
C29_SecondDeleteIsNotFound ==
    [][\A id \in Ids :
          (ref[id] = NoValue /\ id \in inserted /\ Delete(id))
              => (last'.res = "NotFound" /\ file' = file)
      ]_vars

(* ------------------------------------------------------------------ *)
(* Properties of the router                                            *)
(* ------------------------------------------------------------------ *)

\* the address manager of the partition the key belongs to: the one at
\* index hash64(key bytes) mod N of the N the router holds
ManagerOf(key) ==
    address_managers[(calculate_hash(Value_encode_to_vec(key)) % Len(address_managers)) + 1]

AddressesOf(m) == { m.instances[i].address : i \in 1..Len(m.instances) }

LeadersOf(m) ==
    { m.instances[i].address : i \in { j \in 1..Len(m.instances) : m.instances[j].is_leader } }

\* C23: a request for a key is forwarded only to an address that the
\* address manager at index hash64(key bytes) mod N gave: a Get to a member
\* of its full address list, a Create, Update or Delete to its leader
C23_ForwardsWithinThePartitionOfTheKey ==
    [][\A key \in RequestKeys :
          /\ \A random \in 0..1 :
                 (KeyValueServiceRouter_get(Some(key), random, TRUE, response'.status)
                      /\ forwarded'.some)
                     => forwarded'.v.to \in AddressesOf(ManagerOf(key))
          /\ \A rpc \in {"create", "update"} : \A value \in OptionalValues :
                 (KeyValueServiceRouter_write(rpc, Some(KeyValue(Some(key), value)),
                                              TRUE, response'.status)
                      /\ forwarded'.some)
                     => forwarded'.v.to \in LeadersOf(ManagerOf(key))
          /\ (KeyValueServiceRouter_delete(Some(key), TRUE, response'.status)
                  /\ forwarded'.some)
                 => forwarded'.v.to \in LeadersOf(ManagerOf(key))
      ]_vars

\* a Create went to the leader of the third of three partitions, and the
\* backend answered it
C23_Witness ==
    /\ Len(address_managers) = 3
    /\ forwarded = Some([to |-> << 3, 2 >>, rpc |-> "create"])
    /\ response = Answer("create", "ok")

\* a handler that answered internal and sent the request nowhere
AnsweredInternal(rpc) == response' = Answer(rpc, "internal") /\ forwarded' = None

RejectedAsInvalid(rpc) == response' = Answer(rpc, "invalid_argument") /\ forwarded' = None

\* C24: a Get for a key whose partition has an empty or unreadable address
\* list, and a Create, Update or Delete for a key whose partition has no
\* known leader, is answered internal and forwarded nowhere; a request
\* without a key is answered invalid_argument whatever the partitions hold.
\* A step of a handler whose connection succeeded carries the answer of
\* the backend, and the answer of the backend plays no part in one whose
\* connection failed
C24_NoAddressIsInternalNoKeyIsInvalid ==
    [][\A connected \in BOOLEAN :
       \A upstream \in IF connected THEN {response'.status} ELSE {"ok"} :
          /\ \A key \in RequestKeys :
                /\ \A random \in 0..1 :
                      (/\ AddressesOf(ManagerOf(key)) = {}
                       /\ response'.rpc = "get"
                       /\ KeyValueServiceRouter_get(Some(key), random, connected, upstream))
                          => AnsweredInternal("get")
                /\ \A rpc \in {"create", "update"} : \A value \in OptionalValues :
                      (/\ LeadersOf(ManagerOf(key)) = {}
                       /\ response'.rpc = rpc
                       /\ KeyValueServiceRouter_write(rpc, Some(KeyValue(Some(key), value)),
                                                      connected, upstream))
                          => AnsweredInternal(rpc)
                /\ (/\ LeadersOf(ManagerOf(key)) = {}
                    /\ response'.rpc = "delete"
                    /\ KeyValueServiceRouter_delete(Some(key), connected, upstream))
                       => AnsweredInternal("delete")
          /\ \A random \in 0..1 :
                (response'.rpc = "get"
                     /\ KeyValueServiceRouter_get(None, random, connected, upstream))
                    => RejectedAsInvalid("get")
          /\ \A rpc \in {"create", "update"} :
             \A request \in {None} \cup {Some(KeyValue(None, v)) : v \in OptionalValues} :
                (response'.rpc = rpc
                     /\ KeyValueServiceRouter_write(rpc, request, connected, upstream))
                    => RejectedAsInvalid(rpc)
          /\ (response'.rpc = "delete"
                  /\ KeyValueServiceRouter_delete(None, connected, upstream))
                 => RejectedAsInvalid("delete")
      ]_vars

\* an Update found followers and no leader in the only partition
C24_Witness ==
    /\ Len(address_managers) = 1
    /\ address_managers[1].answers = "Ok"
    /\ Len(address_managers[1].instances) = 2
    /\ LeadersOf(address_managers[1]) = {}
    /\ response = Answer("update", "internal")
    /\ forwarded = None

(* ------------------------------------------------------------------ *)
(* Properties of the Bloom filter                                      *)
(* ------------------------------------------------------------------ *)

\* the positions of an element in the filter
Positions(x) ==
    { Md5Hasher_hash(x) % bloom_filter.size, Sha256Hasher_hash(x) % bloom_filter.size }

\* C25: while every remove is matched by an earlier insert that is not yet
\* removed, check answers true for every element inserted more often than
\* removed, whatever shares its positions
C25_NoFalseNegatives ==
    \A x \in BloomElements : members[x] > 0 => BloomFilter_check(bloom_filter, x)

\* "a" is in a filter in which "b", inserted as well and now removed, has
\* the same two positions
C25_Witness ==
    /\ bloom_filter.size = 4
    /\ members = [x \in BloomElements |-> IF x = IdA THEN 1 ELSE 0]
    /\ last = Call("remove", IdB, "Ok")

\* the counter kept for a position, 0 when none is kept
CounterAt(i) == IF i \in DOMAIN bloom_filter.counter THEN bloom_filter.counter[i] ELSE 0

\* C26: a bit is set exactly when the counter of its position is above zero
\* and no counter is negative; an element with no insert left answers
\* false when no inserted element shares one of its positions, also when
\* its own two positions coincide, and answers true while an inserted
\* element has both of its positions
C26_BitIsSetIffCounterPositive ==
    /\ \A i \in 0..(bloom_filter.size - 1) :
           /\ bloom_filter.bitmap[i] <=> CounterAt(i) > 0
           /\ CounterAt(i) >= 0
    /\ \A x \in BloomElements :
           /\ (\A y \in BloomElements : members[y] > 0 => Positions(y) \cap Positions(x) = {})
                  => ~BloomFilter_check(bloom_filter, x)
           /\ (\E y \in BloomElements : members[y] > 0 /\ Positions(x) \subseteq Positions(y))
                  => BloomFilter_check(bloom_filter, x)

\* "c" was inserted and removed in a filter of one position, where its two
\* positions coincide, and nothing else is in the filter
C26_Witness ==
    /\ bloom_filter.size = 1
    /\ members = [x \in BloomElements |-> 0]
    /\ last = Call("remove", IdC, "Ok")
    /\ 0 \in DOMAIN bloom_filter.counter

(* ------------------------------------------------------------------ *)
(* Properties of concurrent handlers                                   *)
(* ------------------------------------------------------------------ *)

\* the handlers that hold the guard of the index mutex
InsideIndex == { c \in Clients : pc[c] # "idle" }

\* the applied Creates of a key that no applied Delete of the key follows
LiveAdds(key) ==
    { i \in 1..Len(applied) :
          /\ applied[i].action = "Add"
          /\ applied[i].key_value.key = key
          /\ \A j \in (i + 1)..Len(applied) :
                 ~(applied[j].action = "Delete" /\ applied[j].key_value.key = key) }

\* the id of the document in row i of the file
IdOfRow(i) == DeserializeDocument(file[i].data).val.id

Tombstoned(k, id) ==
    \/ ss_tables[k][id].is_deleted
    \/ /\ (k - 1) \in DOMAIN cwd_files
       /\ id \in DOMAIN cwd_files[k - 1]
       /\ cwd_files[k - 1][id].is_deleted

\* the SS-table files that hold an entry for id
FilesWith(id) == { k \in 1..Len(ss_tables) : id \in DOMAIN ss_tables[k] }

\* C31: an LSM search of an id that is not in the memtable returns a
\* document only through an SS-table entry that is not tombstoned, and
\* NotFound when every entry for the id is tombstoned.
C31_SearchSkipsTombstonedEntries ==
    (engine = "LSM" /\ last.op = "search" /\ last.id \notin DOMAIN map
        /\ last.res = "Ok") =>
        \E k \in FilesWith(last.id) : ~Tombstoned(k, last.id)

\* C32: an LSM delete, or the first step of an LSM update, of an id that
\* lives only in a flushed SS-table file persists the tombstone in that
\* file: read again, the file has deleted = true for the id and every other
\* entry as before, the other SS-table files are as before, and no file
\* outside the SS-table directory has been created or written.
C32_TombstoneIsWrittenToTheSsTableFile ==
    [][(engine = "LSM" /\ last'.op \in {"delete", "update"} /\ last'.res = "Ok"
          /\ last'.id \notin DOMAIN map) =>
          /\ \E k \in FilesWith(last'.id) :
                /\ ss_tables'[k] = [ss_tables[k] EXCEPT ![last'.id].is_deleted = TRUE]
                /\ \A j \in (1..Len(ss_tables)) \ {k} : ss_tables'[j] = ss_tables[j]
          /\ cwd_files' = cwd_files]_vars

(* ------------------------------------------------------------------ *)
(* Properties of the registry after a change of leadership              *)
(* ------------------------------------------------------------------ *)

\* C33: after a leadership change, once the leader-election watch callbacks
\* have run, the registry node of every living instance carries is_leader
\* equal to the instance's latch state: true for the latch holder, false
\* for every other instance. An instance registers with the state its latch
\* has when it joins, so a registry node can differ from the latch only
\* after the holder of the latch has gone.
C33_RegistryFollowsTheLatch ==
    Settled =>
        \A n \in Living :
            /\ n \in DOMAIN registry
            /\ registry[n].is_leader = has_leadership(n)

(* ------------------------------------------------------------------ *)
(* Properties of the entries an index holds in memory                   *)
(* ------------------------------------------------------------------ *)

\* the byte range an entry of the in-memory map records
EntryRange(id) == IF engine = "LSM" THEN map[id].offset_size ELSE map[id]

\* the entry of id denotes the byte range of one tuple of the file, the
\* tuple is live and holds a document of that id
PointsAtLiveTuple(id) ==
    LET i == RowAt(file, EntryRange(id).offset)
    IN  /\ i # 0
        /\ EntryRange(id).size = RowSize(file[i])
        /\ file[i].header.xmax = NONE_SENTINEL
        /\ DeserializeDocument(file[i].data).val.id = id

\* C34: after the bootstrap and after every successful insert, update or
\* delete, every entry held by a HashMap, a BTree or an LSM memtable denotes
\* exactly the byte range of one tuple of the backing file, that tuple is
\* live, and its document id is the key of the entry.
C34_EntriesPointAtLiveTuples ==
    (engine \in MapEngines \cup {"LSM"}
        /\ (last.op = "new" \/ (last.op \in {"insert", "update", "delete"}
                                 /\ last.res = "Ok"))) =>
        \A id \in DOMAIN map : PointsAtLiveTuple(id)

(* ------------------------------------------------------------------ *)
(* Properties of the replicator over the coordination client            *)
(* ------------------------------------------------------------------ *)

\* get_follower_addresses on client n: the addresses of the instances its
\* list does not mark as leader
ListedFollowers(n) ==
    { instances[n][id].address : id \in DOMAIN instances[n] \ ListedLeaders(n) }

\* C35: the replicator never sends a replication request to its own node:
\* whenever is_leader() is true on a node, the follower addresses its
\* coordination client answers do not hold the node's own address, whatever
\* the interleaving of the callbacks of the two watches.
C35_LeaderIsNoFollowerOfItself ==
    \A n \in Living : has_leadership(n) => n \notin ListedFollowers(n)

(* ------------------------------------------------------------------ *)
(* Properties of the transaction id across restarts                      *)
(* ------------------------------------------------------------------ *)

\* the transaction ids stored in the headers of the backing file
StoredTransactionIds ==
    ({ file[i].header.xmin : i \in 1..Len(file) }
        \cup { file[i].header.xmax : i \in 1..Len(file) }) \ {NONE_SENTINEL}

\* C37: the transaction id a freshly bootstrapped index starts with is
\* strictly greater than every xmin and every xmax other than the sentinel
\* stored in the backing file, so that no id is stamped twice.
C37_BootstrapIdExceedsStoredIds ==
    (engine \in MapEngines \cup {"LSM"} /\ last.op = "new") =>
        \A t \in StoredTransactionIds : t < transaction_id

(* ------------------------------------------------------------------ *)
(* Properties of the Bloom filter inside the LSM index                  *)
(* ------------------------------------------------------------------ *)

\* the tuple that starts at `offset` is in the file and no delete or update
\* has stamped it
LiveTupleAt(offset) ==
    /\ RowAt(file, offset) # 0
    /\ file[RowAt(file, offset)].header.xmax = NONE_SENTINEL

\* id is live in the memtable or in an SS-table file: an entry for it
\* points at a live tuple that holds a document of the id
LiveInLsm(id) ==
    \/ id \in DOMAIN map /\ PointsAtLiveTuple(id)
    \/ \E k \in FilesWith(id) :
           /\ LiveTupleAt(ss_tables[k][id].offset_size.offset)
           /\ IdOfRow(RowAt(file, ss_tables[k][id].offset_size.offset)) = id

\* C38: in the LSM index the Bloom filter never hides a live document:
\* bloom_filter.check(id) is true for every id that is live in the memtable
\* or in an SS-table file, after the bootstrap, flushes and any sequence of
\* calls, repeated deletes of flushed ids included.
C38_BloomFilterShowsEveryLiveId ==
    engine = "LSM" =>
        \A id \in Ids : LiveInLsm(id) => BloomFilter_check(bloom_filter, id)

(* ------------------------------------------------------------------ *)
(* Properties of the LSM update of a flushed id                         *)
(* ------------------------------------------------------------------ *)

\* an update of the id of the last call that was held by SS-table files only
UpdateOfFlushedId ==
    /\ engine = "LSM"
    /\ last'.op = "update"
    /\ last'.id \notin DOMAIN map
    /\ FilesWith(last'.id) # {}

\* the failed call has left the index as it was: the file, the Bloom filter
\* and the transaction id are unchanged and search answers as before
LeftAsBefore(id) ==
    /\ file' = file
    /\ bloom_filter' = bloom_filter
    /\ transaction_id' = transaction_id
    /\ \A order \in CallOrders : LsmTree_search(Ix', id, order) = LsmTree_search(Ix, id, order)

\* C39: an LSM update of an id held in a flushed SS-table file is all or
\* nothing: it succeeds, and search(id) then returns the document written,
\* or it returns an error and leaves the old value readable through
\* search(id), the old tuple live in the backing file, and the Bloom filter
\* and the transaction id unchanged.
C39_UpdateOfFlushedIdIsAllOrNothing ==
    [][UpdateOfFlushedId =>
          IF last'.res = "Ok"
          THEN \A order \in CallOrders' :
                   LsmTree_search(Ix', last'.id, order)
                       = Ok(Document(last'.id, ref'[last'.id]))
          ELSE LeftAsBefore(last'.id)]_vars

(* ------------------------------------------------------------------ *)
(* Properties of replication inside a partition                         *)
(* ------------------------------------------------------------------ *)

\* C36: replication caused by a client write terminates: an accepted
\* Create, Update or Delete leads to at most one index mutation on each
\* node of the partition, and a write received through replication is not
\* applied again to a node that has applied it; so no node has mutated its
\* index more often than clients' writes have been accepted.
C36_OneMutationPerNodeAndWrite ==
    \A n \in Members : mutations[n] <= accepted

\* what Get on node n serves for the key clients write
ServedContent(n) ==
    Index_search(engine, replicas[n], Value_encode_to_vec(<< 97 >>), << >>)

\* no record waits in a channel and no replicator has a request to send
Drained == \A n \in Living : channels[n] = << >> /\ outbox[n] = << >>

\* C40: replicas converge when nothing fails: with a fixed leader and a
\* fixed set of reachable followers, all registered before the first
\* write, once clients have stopped writing and the replication channels
\* have been drained, Get serves on every follower what it serves on the
\* leader.
C40_FollowersServeWhatTheLeaderServes ==
    (latch # << >> /\ Settled /\ Drained) =>
        \A n \in Living : ServedContent(n) = ServedContent(Head(latch))

====
